---------------------------- MODULE Spec2Model ----------------------------
(***************************************************************************)
(* PriceCanary: the alert manager (src/api/alerts.py), the data-contract   *)
(* validator (src/data/contracts.py), the drift, Kalman and anomaly        *)
(* engines (src/models) and the ingest endpoint (src/api/routes.py) as     *)
(* state machines.                                                         *)
(*                                                                         *)
(* Conventions.                                                            *)
(*  - An Optional[T] value is a sequence: <<>> is None, <<x>> is x.        *)
(*  - A Python str that matters only by equality is a TLA+ string; a       *)
(*    formatted number or date is the sequence of its characters, digits   *)
(*    0..9 standing for themselves, so that zero padding and string        *)
(*    comparison are computed as Python computes them.                     *)
(*  - The wall clock `now` counts ticks.  TicksPerSec, DayTicks and        *)
(*    alert_ttl are scaled down so that sub-second timestamps, midnight    *)
(*    and TTL expiry all occur within MaxTime ticks.                       *)
(*  - Prices are fixed-point numbers with PriceScale units per dollar.     *)
(***************************************************************************)
EXTENDS Integers, Sequences, FiniteSets, TLC

VARIABLES
    now,            \* datetime.now(), in ticks
    alerts,         \* AlertManager.alerts: dict in insertion order, as a sequence of Alert
    alert_counter,  \* AlertManager.alert_counter
    ret,            \* the call of the alert manager that is returning: operation,
                    \* arguments, return value; NoCall between calls
    created,        \* history: the alert ids handed out so far, in creation order
    purged,         \* history: the alert ids removed by _cleanup_expired so far
    price_history,  \* DataContractValidator.price_history: sku -> list of prices
    max_price,      \* DataContractValidator.max_price
    vres,           \* the last validate_record call: record and ValidationResult
    calls,          \* number of validate_record calls made since the initial state
    appended,       \* history: sku -> every price validate_record appended for it
    drift_detector, \* routes.drift_detector: the fields of a DriftDetector
    recent_added,   \* history: every price and stock add_to_recent was given
    kalman_filter,  \* routes.kalman_filter: the fields of a ConversionKalmanFilter
    anomaly_detector, \* routes.anomaly_detector: the fields of an AnomalyDetector
    eres,           \* the last call of an engine or of the ingest endpoint, and
                    \* what it returned
    ecalls,         \* number of state-changing engine calls and ingests made since
                    \* the initial state
    metrics,        \* routes.metrics: the counters and gauges of a MetricsCollector
    violations_file, \* the rows ViolationLogger has appended to violations.csv
    inflight,       \* the ingest requests the server has accepted and whose handler
                    \* has not run yet, in order of arrival
    responses       \* history: what the ingest handler answered, in the order in
                    \* which the handlers ran, and whether another request was
                    \* waiting meanwhile

vars == <<now, alerts, alert_counter, ret, created, purged,
          price_history, max_price, vres, calls, appended,
          drift_detector, recent_added, kalman_filter, anomaly_detector,
          eres, ecalls, metrics, violations_file, inflight, responses>>

alertVars == <<now, alerts, alert_counter, ret, created, purged>>
validatorVars == <<price_history, max_price, vres, calls, appended>>

engineVars == <<drift_detector, recent_added, kalman_filter, anomaly_detector,
                eres, ecalls>>

\* written by the ingest endpoint only
ingestVars == <<metrics, violations_file, inflight, responses>>

\* what the calls of one component leave alone
nonAlertVars == <<validatorVars, engineVars, ingestVars>>
nonValidatorVars == <<alertVars, engineVars, ingestVars>>
nonEngineVars == <<alertVars, validatorVars, ingestVars>>

-----------------------------------------------------------------------------
(* Bounds of the model *)

MaxTime == 2
MaxAlerts == 2
MaxCalls == 3
MaxAdds == 6
MaxUpdates == 3
MaxIngests == 2
MaxPredicts == 3
MaxHistory == 60

-----------------------------------------------------------------------------
(* Optional values and Python truthiness *)

None == <<>>
Some(x) == <<x>>

\* `if x:` for an Optional[str]: None and the empty string are both falsy
Truthy(opt) == opt # None /\ opt[1] # ""

Min(a, b) == IF a < b THEN a ELSE b
Max(a, b) == IF a > b THEN a ELSE b

-----------------------------------------------------------------------------
(* Number and date formatting *)

RECURSIVE Digits(_)
Digits(n) == IF n < 10 THEN <<n>> ELSE Append(Digits(n \div 10), n % 10)

\* format(n, "0wd"): at least w characters, zero padded on the left
ZeroPad(n, w) ==
    LET d == Digits(n)
    IN  IF Len(d) >= w THEN d ELSE [i \in 1..(w - Len(d)) |-> 0] \o d

\* the character '.', which sorts before every digit
Dot == -1

TicksPerSec == 2
DayTicks == 2
DateWidth == 8
SecWidth == 4
FracWidth == 6
CounterWidth == 6

\* datetime.strftime('%Y%m%d')
strftime(t) == ZeroPad(t \div DayTicks, DateWidth)

\* datetime.isoformat(): the fraction is printed only when it is not zero
isoformat(t) ==
    ZeroPad(t \div TicksPerSec, SecWidth)
        \o (IF t % TicksPerSec = 0 THEN <<>>
            ELSE <<Dot>> \o ZeroPad(t % TicksPerSec, FracWidth))

\* Python's str < str
RECURSIVE StrLess(_, _)
StrLess(a, b) ==
    IF a = <<>> THEN b # <<>>
    ELSE IF b = <<>> THEN FALSE
    ELSE IF Head(a) # Head(b) THEN Head(a) < Head(b)
    ELSE StrLess(Tail(a), Tail(b))

-----------------------------------------------------------------------------
(* Alert manager *)

alert_ttl == 1

\* (alert_type, severity, sku) of the alerts the callers create
CreateInputs ==
    { <<"contract_violation", "critical", Some("SKU-001")>>,
      <<"contract_violation", "high", Some("")>>,
      <<"drift", "high", None>> }

\* f"ALERT-{date}-{counter:06d}"
AlertIdOf(t, counter) == [date |-> strftime(t), num |-> ZeroPad(counter, CounterWidth)]

\* Alert.__init__
Alert(alert_id, alert_type, severity, sku, t) ==
    [alert_id |-> alert_id, alert_type |-> alert_type, severity |-> severity,
     sku |-> sku, timestamp |-> t, acknowledged |-> FALSE, resolved |-> FALSE]

\* Alert.to_dict, called at time t
to_dict(a, t) ==
    [alert_id |-> a.alert_id, alert_type |-> a.alert_type, severity |-> a.severity,
     sku |-> a.sku, timestamp |-> isoformat(a.timestamp),
     acknowledged |-> a.acknowledged, resolved |-> a.resolved,
     age_seconds |-> t - a.timestamp]

\* `key in dict`
HasKey(als, id) == \E i \in DOMAIN als : als[i].alert_id = id

\* dict[key] = value: replaces in place when the key exists, appends otherwise
DictSet(als, a) ==
    IF HasKey(als, a.alert_id)
    THEN [i \in DOMAIN als |-> IF als[i].alert_id = a.alert_id THEN a ELSE als[i]]
    ELSE Append(als, a)

\* the counter after `self.alert_counter += 1`
NextCounterNoIncrement(counter) == counter

NextCounter(counter) == counter + 1

\* the alerts _cleanup_expired removes at time t
Expired(a, t) == t - a.timestamp > alert_ttl

CleanupNever(als, t) == als

\* a purge that also drops the alerts that were resolved
CleanupResolved(als, t) == SelectSeq(als, LAMBDA a : ~Expired(a, t) /\ ~a.resolved)

CleanupExpired(als, t) == SelectSeq(als, LAMBDA a : ~Expired(a, t))

\* the four `continue` tests of get_alerts
MatchSeverity(a, f) == ~(f.severity # None /\ a.severity # f.severity[1])
MatchType(a, f) == ~(Truthy(f.alert_type) /\ a.alert_type # f.alert_type[1])
MatchSku(a, f) == ~(Truthy(f.sku) /\ a.sku # f.sku)
MatchResolvedDefaultFalse(a, f) == a.resolved = (f.resolved = Some(TRUE))

MatchResolved(a, f) == ~(f.resolved # None /\ a.resolved # f.resolved[1])

Matches(a, f) ==
    MatchSeverity(a, f) /\ MatchType(a, f) /\ MatchSku(a, f) /\ MatchResolved(a, f)

\* list.sort(key=timestamp, reverse=True): stable, descending by the string key
RECURSIVE InsertDesc(_, _)
InsertDesc(sorted, x) ==
    IF sorted = <<>> THEN <<x>>
    ELSE IF StrLess(Head(sorted).timestamp, x.timestamp)
         THEN <<x>> \o sorted
         ELSE <<Head(sorted)>> \o InsertDesc(Tail(sorted), x)

SortOmitted(s) == s

RECURSIVE SortNewestFirst(_)
SortNewestFirst(s) ==
    IF s = <<>> THEN <<>>
    ELSE InsertDesc(SortNewestFirst(SubSeq(s, 1, Len(s) - 1)), s[Len(s)])

\* list[:limit]
SliceTo(s, limit) ==
    IF limit >= 0 THEN SubSeq(s, 1, Min(limit, Len(s)))
    ELSE SubSeq(s, 1, Max(Len(s) + limit, 0))

\* the list get_alerts returns at time t
Listing(als, f, t) ==
    LET kept == SelectSeq(CleanupExpired(als, t), LAMBDA a : Matches(a, f))
        dicts == [i \in DOMAIN kept |-> to_dict(kept[i], t)]
    IN  SliceTo(SortNewestFirst(dicts), f.limit)

\* the dict get_alert_stats builds from the table
StatsCountingResolved(als) ==
    [total |-> Len(als),
     by_severity |-> [s \in {als[i].severity : i \in DOMAIN als} |->
                        Cardinality({i \in DOMAIN als : als[i].severity = s})],
     by_type |-> [y \in {als[i].alert_type : i \in DOMAIN als} |->
                        Cardinality({i \in DOMAIN als : als[i].alert_type = y})],
     unresolved |-> Cardinality({i \in DOMAIN als : als[i].resolved}),
     unacknowledged |-> Cardinality({i \in DOMAIN als : ~als[i].acknowledged})]

StatsOf(als) ==
    [total |-> Len(als),
     by_severity |-> [s \in {als[i].severity : i \in DOMAIN als} |->
                        Cardinality({i \in DOMAIN als : als[i].severity = s})],
     by_type |-> [y \in {als[i].alert_type : i \in DOMAIN als} |->
                        Cardinality({i \in DOMAIN als : als[i].alert_type = y})],
     unresolved |-> Cardinality({i \in DOMAIN als : ~als[i].resolved}),
     unacknowledged |-> Cardinality({i \in DOMAIN als : ~als[i].acknowledged})]

\* acknowledge_alert / resolve_alert on the table
AcknowledgedToggle(als, id) ==
    [i \in DOMAIN als |->
        IF als[i].alert_id = id
        THEN [als[i] EXCEPT !.acknowledged = ~als[i].acknowledged] ELSE als[i]]

Acknowledged(als, id) ==
    [i \in DOMAIN als |->
        IF als[i].alert_id = id THEN [als[i] EXCEPT !.acknowledged = TRUE] ELSE als[i]]

Resolved(als, id) ==
    [i \in DOMAIN als |->
        IF als[i].alert_id = id THEN [als[i] EXCEPT !.resolved = TRUE] ELSE als[i]]

\* routes: 404 when the manager returns False
StatusAlwaysOk(success) == 200

StatusOf(success) == IF success THEN 200 ELSE 404

PurgedIds(als, t) == {als[i].alert_id : i \in {j \in DOMAIN als : Expired(als[j], t)}}

\* the filter arguments callers pass to get_alerts: each filter alone and with
\* the resolved filter under the default limit, severity and alert_type
\* together, an empty alert_type and an empty sku, and small limits
Filters ==
    [severity : {None, Some("high")}, alert_type : {None}, sku : {None},
     resolved : {None, Some(TRUE), Some(FALSE)}, limit : {100}]
    \cup
    [severity : {None}, alert_type : {Some("drift")}, sku : {None},
     resolved : {None, Some(TRUE), Some(FALSE)}, limit : {100}]
    \cup
    [severity : {None}, alert_type : {None}, sku : {Some(""), Some("SKU-001")},
     resolved : {None, Some(TRUE), Some(FALSE)}, limit : {100}]
    \cup
    [severity : {Some("high")}, alert_type : {Some("drift")},
     sku : {None, Some("SKU-001")}, resolved : {None, Some(FALSE)},
     limit : {100}]
    \cup
    [severity : {None}, alert_type : {Some("")}, sku : {None},
     resolved : {None}, limit : {100}]
    \cup
    [severity : {None}, alert_type : {None}, sku : {None},
     resolved : {None, Some(TRUE), Some(FALSE)}, limit : {1}]
    \cup
    [severity : {None}, alert_type : {None}, sku : {None},
     resolved : {None}, limit : {0}]

\* the ids callers pass to acknowledge / resolve: every id handed out so far
\* and one that never is
UnknownId == AlertIdOf(0, 0)
CallerIds == {created[i] : i \in DOMAIN created} \cup {UnknownId}

NoCall == [op |-> "none"]

\* the flag of the alert with this id, false when there is none
IsAcknowledged(als, id) == \E i \in DOMAIN als : als[i].alert_id = id /\ als[i].acknowledged
IsResolved(als, id) == \E i \in DOMAIN als : als[i].alert_id = id /\ als[i].resolved

\* AlertManager.create_alert (with _generate_alert_id)
CreateAlert ==
    \E inp \in CreateInputs :
        /\ ret = NoCall
        /\ alert_counter < MaxAlerts
        /\ LET counter == NextCounter(alert_counter)
               id == AlertIdOf(now, counter)
               a == Alert(id, inp[1], inp[2], inp[3], now)
           IN  /\ alert_counter' = counter
               /\ alerts' = DictSet(alerts, a)
               /\ created' = Append(created, id)
               /\ ret' = [op |-> "create", alert |-> a]
        /\ UNCHANGED <<now, purged>>
        /\ UNCHANGED nonAlertVars

\* AlertManager.get_alerts
GetAlerts ==
    \E f \in Filters :
        /\ ret = NoCall
        /\ alerts' = CleanupExpired(alerts, now)
        /\ purged' = purged \cup PurgedIds(alerts, now)
        /\ ret' = [op |-> "get", args |-> f, now |-> now,
                   result |-> Listing(alerts, f, now)]
        /\ UNCHANGED <<now, alert_counter, created>>
        /\ UNCHANGED nonAlertVars

\* AlertManager.get_alert_stats
GetAlertStats ==
    /\ ret = NoCall
    /\ alerts' = CleanupExpired(alerts, now)
    /\ purged' = purged \cup PurgedIds(alerts, now)
    /\ ret' = [op |-> "stats", now |-> now, stats |-> StatsOf(CleanupExpired(alerts, now))]
    /\ UNCHANGED <<now, alert_counter, created>>
    /\ UNCHANGED nonAlertVars

\* AlertManager.acknowledge_alert behind POST /alerts/{alert_id}/acknowledge
AcknowledgeAlert ==
    \E id \in CallerIds :
        LET success == HasKey(alerts, id)
        IN  /\ ret = NoCall
            /\ alerts' = IF success THEN Acknowledged(alerts, id) ELSE alerts
            /\ ret' = [op |-> "acknowledge", alert_id |-> id, success |-> success,
                       status |-> StatusOf(success),
                       already |-> IsAcknowledged(alerts, id)]
            /\ UNCHANGED <<now, alert_counter, created, purged>>
            /\ UNCHANGED nonAlertVars

\* AlertManager.resolve_alert behind POST /alerts/{alert_id}/resolve
ResolveAlert ==
    \E id \in CallerIds :
        LET success == HasKey(alerts, id)
        IN  /\ ret = NoCall
            /\ alerts' = IF success THEN Resolved(alerts, id) ELSE alerts
            /\ ret' = [op |-> "resolve", alert_id |-> id, success |-> success,
                       status |-> StatusOf(success),
                       already |-> IsResolved(alerts, id)]
            /\ UNCHANGED <<now, alert_counter, created, purged>>
            /\ UNCHANGED nonAlertVars

\* the call returns to its caller
Return ==
    /\ ret # NoCall
    /\ ret' = NoCall
    /\ UNCHANGED <<now, alerts, alert_counter, created, purged>>
    /\ UNCHANGED nonAlertVars

\* the wall clock advances between calls
Tick ==
    /\ ret = NoCall
    /\ now < MaxTime
    /\ now' = now + 1
    /\ UNCHANGED <<ret, alerts, alert_counter, created, purged>>
    /\ UNCHANGED nonAlertVars

AlertsNext ==
    \/ CreateAlert
    \/ GetAlerts
    \/ GetAlertStats
    \/ AcknowledgeAlert
    \/ ResolveAlert
    \/ Return
    \/ Tick

-----------------------------------------------------------------------------
(* Contract validator *)

PriceScale == 10000

\* the price d.cc dollars
Price(d, cc) == d * PriceScale + cc * (PriceScale \div 100)

price_jump_threshold == 10
DefaultMaxPrice == 100000
CentsThreshold == 1000
HistoryCap == 100
StaleSeconds == 86400
FutureSeconds == 3600

\* A record is a dict: each field is None when the key is absent.  The price
\* is a number ("num"), a numeric string ("str") or a value no float can be
\* made of ("bad").  The timestamp is held as its age, now - timestamp, in
\* seconds, at the time the record is validated.
Num(v) == Some([kind |-> "num", val |-> v])

BaseRecord ==
    [timestamp |-> Some(0), sku |-> Some("SKU-001"), price |-> Num(Price(50, 0)),
     stock |-> Some(100), views |-> Some(30), add_to_cart |-> Some(3),
     purchases |-> Some(0)]

RecordPrices ==
    { Num(Price(19, 99)), Num(Price(50, 0)), Num(Price(1999, 99)),
      Num(Price(50000, 0)), Num(Price(150000, 0)), Num(0 - Price(10, 0)),
      Some([kind |-> "str", val |-> Price(5000, 0)]),
      Some([kind |-> "bad", val |-> 0]), None }

\* the records callers submit: every price for two SKUs, fresh or stale, and
\* the base record with one other field changed
Records ==
    { [BaseRecord EXCEPT !.price = p, !.sku = Some(s), !.timestamp = Some(t)] :
        p \in RecordPrices, s \in {"SKU-001", "SKU-002"}, t \in {0, StaleSeconds + 3600} }
    \cup { [BaseRecord EXCEPT !.stock = x] : x \in {Some(0 - 10), Some(0), None} }
    \cup { [BaseRecord EXCEPT !.sku = x] : x \in {Some(""), None} }
    \cup { [BaseRecord EXCEPT !.timestamp = x] :
              x \in {Some(StaleSeconds), Some(StaleSeconds + 1),
                     Some(0 - FutureSeconds), Some(0 - FutureSeconds - 1),
                     Some(0 - FutureSeconds - 1800), None} }
    \cup { [BaseRecord EXCEPT !.views = Some(f[1]), !.add_to_cart = Some(f[2]),
                              !.purchases = Some(f[3])] :
              f \in {<<50, 10, 5>>, <<50, 60, 5>>, <<50, 10, 20>>, <<0 - 1, 0, 0>>} }

\* TelemetryRecord.normalize_price (pre=True): a number above 1000 is taken
\* as cents; anything that is not a number is passed on unchanged
normalize_price(pv) ==
    IF pv.kind = "num" /\ pv.val > CentsThreshold * PriceScale
    THEN pv.val \div 100
    ELSE pv.val

FieldErrorsNoFunnel(r) ==
    (IF r.timestamp # None THEN {} ELSE {"timestamp"})
    \cup (IF r.sku # None /\ r.sku[1] # "" THEN {} ELSE {"sku"})
    \cup (IF r.price # None /\ r.price[1].kind # "bad" /\ normalize_price(r.price[1]) > 0
          THEN {} ELSE {"price"})
    \cup (IF r.stock # None /\ r.stock[1] >= 0 THEN {} ELSE {"stock"})
    \cup (IF r.views # None /\ r.views[1] >= 0 THEN {} ELSE {"views"})
    \cup (IF r.add_to_cart # None /\ r.add_to_cart[1] >= 0 THEN {} ELSE {"add_to_cart"})
    \cup (IF r.purchases # None /\ r.purchases[1] >= 0 THEN {} ELSE {"purchases"})

\* the fields of TelemetryRecord(**record) that fail validation, the
\* validators running in field order and seeing the fields that passed
FieldErrors(r) ==
    LET okViews == r.views # None /\ r.views[1] >= 0
        okCart == /\ r.add_to_cart # None /\ r.add_to_cart[1] >= 0
                  /\ (okViews => r.add_to_cart[1] <= r.views[1])
        okPurchases == /\ r.purchases # None /\ r.purchases[1] >= 0
                       /\ (okCart => r.purchases[1] <= r.add_to_cart[1])
    IN  (IF r.timestamp # None THEN {} ELSE {"timestamp"})
        \cup (IF r.sku # None /\ r.sku[1] # "" THEN {} ELSE {"sku"})
        \cup (IF r.price # None /\ r.price[1].kind # "bad" /\ normalize_price(r.price[1]) > 0
              THEN {} ELSE {"price"})
        \cup (IF r.stock # None /\ r.stock[1] >= 0 THEN {} ELSE {"stock"})
        \cup (IF okViews THEN {} ELSE {"views"})
        \cup (IF okCart THEN {} ELSE {"add_to_cart"})
        \cup (IF okPurchases THEN {} ELSE {"purchases"})

\* telemetry.dict(): the record with its fields coerced and the price normalized
normalized_record(r) ==
    [timestamp |-> r.timestamp[1], sku |-> r.sku[1],
     price |-> normalize_price(r.price[1]), stock |-> r.stock[1],
     views |-> r.views[1], add_to_cart |-> r.add_to_cart[1],
     purchases |-> r.purchases[1]]

\* ValidationResult.add_violation
Violation(violation_type, sku, severity) ==
    [violation_type |-> violation_type, sku |-> sku, severity |-> severity]

\* dict.get / `sku in self.price_history`
HistoryOf(ph, sku) == IF sku \in DOMAIN ph THEN ph[sku] ELSE <<>>

\* the check for negative stock after Pydantic
NegativeStockCheck(n) ==
    IF n.stock < 0 THEN <<Violation("negative_stock", Some(n.sku), "high")>> ELSE <<>>

\* the check for unit errors
UnitErrorCheckOmitted(n, maxp) == <<>>

UnitErrorCheck(n, maxp) ==
    IF n.price > maxp THEN <<Violation("unit_error", Some(n.sku), "critical")>> ELSE <<>>

\* the check for large price jumps against the last price of the SKU;
\* price / last_price > T is price > T * last_price since last_price > 0
PriceJumpCheckAnyRepeat(n, ph) ==
    LET h == HistoryOf(ph, n.sku)
    IN  IF h # <<>> /\ n.price >= h[Len(h)]
        THEN <<Violation("price_jump", Some(n.sku), "critical")>>
        ELSE <<>>

\* the price-jump check against the oldest retained price of the SKU
PriceJumpCheckOldest(n, ph) ==
    LET h == HistoryOf(ph, n.sku)
    IN  IF h = <<>> THEN <<>>
        ELSE IF n.price > price_jump_threshold * h[1]
             THEN <<Violation("price_jump", Some(n.sku), "critical")>>
             ELSE IF n.price * price_jump_threshold < h[1]
                  THEN <<Violation("price_jump", Some(n.sku), "high")>>
                  ELSE <<>>

PriceJumpCheck(n, ph) ==
    LET h == HistoryOf(ph, n.sku)
    IN  IF h = <<>> THEN <<>>
        ELSE LET last_price == h[Len(h)]
             IN  IF last_price > 0
                 THEN IF n.price > price_jump_threshold * last_price
                      THEN <<Violation("price_jump", Some(n.sku), "critical")>>
                      ELSE IF n.price * price_jump_threshold < last_price
                           THEN <<Violation("price_jump", Some(n.sku), "high")>>
                           ELSE <<>>
                 ELSE <<>>

\* the price history after the update, capped at the last 100 prices
UpdatedHistoryUncapped(ph, n) ==
    [s \in DOMAIN ph \cup {n.sku} |->
        IF s = n.sku THEN Append(HistoryOf(ph, n.sku), n.price) ELSE ph[s]]

UpdatedHistory(ph, n) ==
    LET h == Append(HistoryOf(ph, n.sku), n.price)
        kept == IF Len(h) > HistoryCap THEN SubSeq(h, Len(h) - HistoryCap + 1, Len(h)) ELSE h
    IN  [s \in DOMAIN ph \cup {n.sku} |-> IF s = n.sku THEN kept ELSE ph[s]]

\* the timestamp freshness check; n.timestamp is now - timestamp
FreshnessCheckStaleOnly(n) ==
    IF n.timestamp > StaleSeconds
    THEN <<Violation("invalid_timestamp", Some(n.sku), "medium")>>
    ELSE <<>>

FreshnessCheck(n) ==
    IF n.timestamp > StaleSeconds
    THEN <<Violation("invalid_timestamp", Some(n.sku), "medium")>>
    ELSE IF n.timestamp < 0 - FutureSeconds
         THEN <<Violation("invalid_timestamp", Some(n.sku), "medium")>>
         ELSE <<>>

\* the ValidationResult of validate_record(r)
ValidationOf(r, ph, maxp) ==
    IF FieldErrors(r) # {}
    THEN [is_valid |-> FALSE,
          violations |-> <<Violation("schema_error", r.sku, "high")>>,
          normalized_data |-> None]
    ELSE LET n == normalized_record(r)
             vs == NegativeStockCheck(n) \o UnitErrorCheck(n, maxp)
                     \o PriceJumpCheck(n, ph) \o FreshnessCheck(n)
         IN  [is_valid |-> vs = <<>>,
              violations |-> vs,
              normalized_data |-> IF vs = <<>> THEN Some(n) ELSE None]

\* the max_price arguments callers construct a validator with
MaxPrices == {Price(1000, 0), Price(DefaultMaxPrice, 0)}

\* DataContractValidator.validate_record
ValidateRecord ==
    \E r \in Records :
        /\ calls < MaxCalls
        /\ calls' = calls + 1
        /\ vres' = [op |-> "validate", record |-> r,
                    repeated |-> vres.op = "validate" /\ vres.record = r]
                       @@ ValidationOf(r, price_history, max_price)
        /\ price_history' = IF FieldErrors(r) # {} THEN price_history
                            ELSE UpdatedHistory(price_history, normalized_record(r))
        /\ appended' = IF FieldErrors(r) # {} THEN appended
                       ELSE LET n == normalized_record(r)
                            IN  [s \in DOMAIN appended \cup {n.sku} |->
                                    IF s = n.sku
                                    THEN Append(HistoryOf(appended, n.sku), n.price)
                                    ELSE appended[s]]
        /\ UNCHANGED max_price
        /\ UNCHANGED nonValidatorVars

ValidatorNext == ValidateRecord

-----------------------------------------------------------------------------
(* Drift detector *)

DefaultBaselineWindow == 1000
MinBaseline == 10
MinRecent == 5

\* PSI values, KS statistics and p-values are fixed-point numbers with
\* StatScale units per 1
StatScale == 1000
psi_threshold == 200
ks_threshold == 50

\* a conversion rate purchases / views, fixed point with RateScale units per 1
RateScale == 10000
Rate(purchases, views) == (purchases * RateScale) \div views

Range(s) == {s[i] : i \in DOMAIN s}

\* list[-k:] as Python slices it: -0 is 0, so k = 0 keeps the whole list
SliceLast(s, k) ==
    IF k = 0 THEN s ELSE SubSeq(s, Len(s) - Min(k, Len(s)) + 1, Len(s))

\* DriftDetector.__init__; a key of a defaultdict(list) that was never
\* written reads as the empty list and is held as the empty list
DriftDetector(window) ==
    [baseline_window |-> window,
     baseline_data |-> [price |-> <<>>, stock |-> <<>>],
     baseline_ready |-> FALSE,
     recent_data |-> [price |-> <<>>, stock |-> <<>>],
     sku_conversion_history |-> <<>>]

\* the record dicts given to the detector: one with every field, one without
\* a stock and without views, one without a price and with an empty sku
DriftRecords ==
    { [sku |-> Some("SKU-001"), price |-> Some(Price(50, 0)), stock |-> Some(100),
       views |-> 30, purchases |-> 3],
      [sku |-> Some("SKU-002"), price |-> Some(Price(20, 0)), stock |-> None,
       views |-> 0, purchases |-> 0],
      [sku |-> Some(""), price |-> None, stock |-> Some(7),
       views |-> 10, purchases |-> 1] }

\* self.sku_conversion_history[sku].append(conversion_rate)
ConversionAppended(h, sku, rate) ==
    [s \in DOMAIN h \cup {sku} |->
        IF s = sku THEN Append(IF sku \in DOMAIN h THEN h[sku] ELSE <<>>, rate)
        ELSE h[s]]

\* DriftDetector.add_to_baseline
add_to_baseline(d, r) ==
    IF d.baseline_ready THEN d
    ELSE LET price == IF r.price # None THEN Append(d.baseline_data.price, r.price[1])
                      ELSE d.baseline_data.price
             stock == IF r.stock # None THEN Append(d.baseline_data.stock, r.stock[1])
                      ELSE d.baseline_data.stock
             conv == IF Truthy(r.sku) /\ r.views > 0
                     THEN ConversionAppended(d.sku_conversion_history, r.sku[1],
                                             Rate(r.purchases, r.views))
                     ELSE d.sku_conversion_history
         IN  [d EXCEPT !.baseline_data = [price |-> price, stock |-> stock],
                       !.sku_conversion_history = conv,
                       !.baseline_ready = Len(price) >= d.baseline_window]

\* the cap of add_to_recent on one window
TrimRecent(w, max_recent) ==
    IF Len(w) > max_recent THEN SliceLast(w, max_recent) ELSE w

\* add_to_recent tracking the conversion rate of the record as
\* add_to_baseline does
add_to_recent_tracking(d, r) ==
    LET price == IF r.price # None THEN Append(d.recent_data.price, r.price[1])
                 ELSE d.recent_data.price
        stock == IF r.stock # None THEN Append(d.recent_data.stock, r.stock[1])
                 ELSE d.recent_data.stock
        max_recent == d.baseline_window \div 2
    IN  [d EXCEPT !.recent_data = [price |-> TrimRecent(price, max_recent),
                                   stock |-> TrimRecent(stock, max_recent)],
                  !.sku_conversion_history =
                      IF Truthy(r.sku) /\ r.views > 0
                      THEN ConversionAppended(@, r.sku[1], Rate(r.purchases, r.views))
                      ELSE @]

\* DriftDetector.add_to_recent
add_to_recent(d, r) ==
    LET price == IF r.price # None THEN Append(d.recent_data.price, r.price[1])
                 ELSE d.recent_data.price
        stock == IF r.stock # None THEN Append(d.recent_data.stock, r.stock[1])
                 ELSE d.recent_data.stock
        max_recent == d.baseline_window \div 2
    IN  [d EXCEPT !.recent_data = [price |-> TrimRecent(price, max_recent),
                                   stock |-> TrimRecent(stock, max_recent)]]

\* routes.py: add_to_baseline(record) if not baseline_ready else
\* add_to_recent(record); detect_all_drift(record) feeds the record the same way
FeedRecordToBaseline(d, r) == add_to_baseline(d, r)

FeedRecord(d, r) ==
    IF ~d.baseline_ready THEN add_to_baseline(d, r) ELSE add_to_recent(d, r)

\* everything add_to_recent was given, when a record is fed to detector d
AddedToRecent(added, r) ==
    [price |-> IF r.price # None THEN Append(added.price, r.price[1]) ELSE added.price,
     stock |-> IF r.stock # None THEN Append(added.stock, r.stock[1]) ELSE added.stock]

\* what calculate_psi and ks_2samp may return for two samples that are not
\* one repeated value: PSI, KS statistic and p-value on either side of the
\* thresholds
StatOutcomes ==
    { [psi |-> 100, ks_statistic |-> 100, ks_pvalue |-> 500],
      [psi |-> 250, ks_statistic |-> 400, ks_pvalue |-> 200],
      [psi |-> 100, ks_statistic |-> 600, ks_pvalue |-> 30],
      [psi |-> 600, ks_statistic |-> 900, ks_pvalue |-> 5] }

\* calculate_psi and calculate_ks_statistic: PSI is 0.0 when min_val ==
\* max_val, and two samples of one repeated value have KS statistic 0, p-value 1
Statistics(expected, actual) ==
    IF Cardinality(Range(expected) \cup Range(actual)) <= 1
    THEN {[psi |-> 0, ks_statistic |-> 0, ks_pvalue |-> StatScale]}
    ELSE StatOutcomes

InsufficientData ==
    [drift_detected |-> FALSE, psi |-> 0, ks_statistic |-> 0,
     ks_pvalue |-> StatScale, reason |-> Some("Insufficient data")]

\* detect_price_drift / detect_stock_drift on the two lists of one metric
DetectDriftAlways(baseline, recent, st) ==
    [drift_detected |-> st.psi > psi_threshold \/ st.ks_pvalue < ks_threshold,
     psi |-> st.psi, ks_statistic |-> st.ks_statistic,
     ks_pvalue |-> st.ks_pvalue, reason |-> None]

DetectDrift(baseline, recent, st) ==
    IF Len(baseline) < MinBaseline \/ Len(recent) < MinRecent
    THEN InsufficientData
    ELSE [drift_detected |-> st.psi > psi_threshold \/ st.ks_pvalue < ks_threshold,
          psi |-> st.psi, ks_statistic |-> st.ks_statistic,
          ks_pvalue |-> st.ks_pvalue, reason |-> None]

\* DriftDetector.add_to_baseline(record)
AddToBaseline ==
    \E r \in DriftRecords :
        /\ ecalls < MaxAdds
        /\ ecalls' = ecalls + 1
        /\ drift_detector' = add_to_baseline(drift_detector, r)
        /\ eres' = [op |-> "add_to_baseline", record |-> r]
        /\ UNCHANGED <<recent_added, kalman_filter, anomaly_detector>>
        /\ UNCHANGED nonEngineVars

\* DriftDetector.add_to_recent(record)
AddToRecent ==
    \E r \in DriftRecords :
        /\ ecalls < MaxAdds
        /\ ecalls' = ecalls + 1
        /\ drift_detector' = add_to_recent(drift_detector, r)
        /\ recent_added' = AddedToRecent(recent_added, r)
        /\ eres' = [op |-> "add_to_recent", record |-> r]
        /\ UNCHANGED <<kalman_filter, anomaly_detector>>
        /\ UNCHANGED nonEngineVars

\* DriftDetector.detect_price_drift()
DetectPriceDrift ==
    \E st \in Statistics(drift_detector.baseline_data.price,
                         drift_detector.recent_data.price) :
        /\ eres' = [op |-> "detect_price_drift",
                    result |-> DetectDrift(drift_detector.baseline_data.price,
                                           drift_detector.recent_data.price, st)]
        /\ UNCHANGED <<drift_detector, recent_added, kalman_filter,
                       anomaly_detector, ecalls>>
        /\ UNCHANGED nonEngineVars

\* DriftDetector.detect_stock_drift()
DetectStockDrift ==
    \E st \in Statistics(drift_detector.baseline_data.stock,
                         drift_detector.recent_data.stock) :
        /\ eres' = [op |-> "detect_stock_drift",
                    result |-> DetectDrift(drift_detector.baseline_data.stock,
                                           drift_detector.recent_data.stock, st)]
        /\ UNCHANGED <<drift_detector, recent_added, kalman_filter,
                       anomaly_detector, ecalls>>
        /\ UNCHANGED nonEngineVars

\* DriftDetector.detect_all_drift(record), as the ingest of a record uses the
\* detector: the record is fed to the baseline or to the recent window, then
\* both metrics are tested
DetectAllDrift ==
    \E r \in DriftRecords :
        LET d == FeedRecord(drift_detector, r)
        IN  /\ ecalls < MaxAdds
            /\ ecalls' = ecalls + 1
            /\ drift_detector' = d
            /\ recent_added' = IF drift_detector.baseline_ready
                               THEN AddedToRecent(recent_added, r)
                               ELSE recent_added
            /\ \E sp \in Statistics(d.baseline_data.price, d.recent_data.price),
                  ss \in Statistics(d.baseline_data.stock, d.recent_data.stock) :
                  eres' = [op |-> "detect_all_drift", record |-> r,
                           baseline_ready |-> d.baseline_ready,
                           price_drift |-> DetectDrift(d.baseline_data.price,
                                                       d.recent_data.price, sp),
                           stock_drift |-> DetectDrift(d.baseline_data.stock,
                                                       d.recent_data.stock, ss)]
            /\ UNCHANGED <<kalman_filter, anomaly_detector>>
            /\ UNCHANGED nonEngineVars

DriftNext ==
    \/ AddToBaseline
    \/ AddToRecent
    \/ DetectPriceDrift
    \/ DetectStockDrift
    \/ DetectAllDrift

\* the baseline_window arguments detectors are constructed with
Windows == {1, 2, 3, MinBaseline}

\* the baseline after n calls of add_to_baseline with the first of DriftRecords
BaselineOf(window, n) ==
    [DriftDetector(window) EXCEPT
        !.baseline_data = [price |-> [i \in 1..n |-> Price(50, 0)],
                           stock |-> [i \in 1..n |-> 100]],
        !.sku_conversion_history = [s \in {"SKU-001"} |-> [i \in 1..n |-> Rate(3, 30)]]]

-----------------------------------------------------------------------------
(* Kalman filter of the conversion rate *)

\* estimates, uncertainties and variances are fixed-point numbers with
\* KScale units per 1, every division rounding down
KScale == 10000
Frac(n, d) == (n * KScale) \div d

\* the largest x in lo..hi with x * x <= n
RECURSIVE Bisect(_, _, _)
Bisect(n, lo, hi) ==
    IF lo = hi THEN lo
    ELSE LET mid == (lo + hi + 1) \div 2
         IN  IF mid * mid <= n THEN Bisect(n, mid, hi) ELSE Bisect(n, lo, mid - 1)

\* np.sqrt of a fixed-point number with `scale` units per 1, in the same units
SqrtScaled(x, scale) == Bisect(x * scale, 0, 46340)

SqrtScale == 100

\* ConversionKalmanFilter.__init__
ConversionKalmanFilter(process_variance, measurement_variance, initial_estimate, initial_uncertainty) ==
    [process_variance |-> process_variance,
     measurement_variance |-> measurement_variance,
     initial_estimate |-> initial_estimate,
     initial_uncertainty |-> initial_uncertainty,
     sku_state |-> <<>>]

\* self.sku_state[sku] of the defaultdict: the stored state, or the initial one
StateOf(k, sku) ==
    IF sku \in DOMAIN k.sku_state THEN k.sku_state[sku]
    ELSE [estimate |-> k.initial_estimate, uncertainty |-> k.initial_uncertainty]

\* sku_state after self.sku_state[sku] was read and then assigned st
WithState(k, sku, st) ==
    [k EXCEPT !.sku_state =
        [s \in DOMAIN k.sku_state \cup {sku} |-> IF s = sku THEN st ELSE k.sku_state[s]]]

\* np.clip(x, 0.0, 1.0)
ClipOmitted(x) == x

Clip(x) == Max(0, Min(KScale, x))

\* ConversionKalmanFilter.update: the filter afterwards and the pair returned
update(k, sku, views, purchases) ==
    LET state == StateOf(k, sku)
        current_estimate == state.estimate
        current_uncertainty == state.uncertainty
    IN  IF views = 0
        THEN [filter |-> WithState(k, sku, state),
              estimate |-> current_estimate, uncertainty |-> current_uncertainty]
        ELSE LET observed_conversion == Frac(purchases, views)
                 predicted_estimate == current_estimate
                 predicted_uncertainty == current_uncertainty + k.process_variance
                 effective_measurement_variance ==
                     IF views > 0
                     THEN (k.measurement_variance * SqrtScale)
                              \div SqrtScaled(views * SqrtScale, SqrtScale)
                     ELSE k.measurement_variance
                 kalman_gain ==
                     (predicted_uncertainty * KScale)
                         \div (predicted_uncertainty + effective_measurement_variance)
                 updated_estimate ==
                     Clip(predicted_estimate
                            + (kalman_gain * (observed_conversion - predicted_estimate))
                                  \div KScale)
                 updated_uncertainty ==
                     ((KScale - kalman_gain) * predicted_uncertainty) \div KScale
             IN  [filter |-> WithState(k, sku, [estimate |-> updated_estimate,
                                                uncertainty |-> updated_uncertainty]),
                  estimate |-> updated_estimate, uncertainty |-> updated_uncertainty]

threshold_sigma == 2
SigmaFloor == 1000

Abs(x) == IF x < 0 THEN 0 - x ELSE x

\* ConversionKalmanFilter.detect_deviation: the filter afterwards and the result
detect_deviation(k, sku, views, purchases) ==
    IF views = 0
    THEN [filter |-> k, deviation_detected |-> FALSE, reason |-> Some("No views")]
    ELSE LET state == StateOf(k, sku)
             observed_conversion == Frac(purchases, views)
             std_dev == IF state.uncertainty > 0
                        THEN SqrtScaled(state.uncertainty, KScale)
                        ELSE SigmaFloor
             z_score == IF std_dev > 0
                        THEN (Abs(observed_conversion - state.estimate) * KScale) \div std_dev
                        ELSE 0
             u == update(k, sku, views, purchases)
         IN  [filter |-> u.filter,
              deviation_detected |-> z_score > threshold_sigma * KScale,
              reason |-> None,
              expected_conversion |-> state.estimate,
              observed_conversion |-> observed_conversion,
              updated_conversion |-> u.estimate,
              z_score |-> z_score,
              uncertainty |-> state.uncertainty,
              updated_uncertainty |-> u.uncertainty]

\* the constructor arguments filters are built with: the defaults of
\* routes.py, no process noise from a certain start, and a noisy process
KalmanConfigs ==
    { ConversionKalmanFilter(Frac(1, 100), Frac(5, 100), Frac(5, 100), Frac(1, 1)),
      ConversionKalmanFilter(0, Frac(5, 100), 0, 0),
      ConversionKalmanFilter(Frac(1, 1), Frac(1, 100), Frac(1, 1), 0) }

KalmanSkus == {"SKU-001", "SKU-002"}
KalmanViews == {0, 4, 30}
KalmanPurchases == {0, 3, 8, 40}

\* ConversionKalmanFilter.update(sku, views, purchases)
KalmanUpdate ==
    \E sku \in KalmanSkus, views \in KalmanViews, purchases \in KalmanPurchases :
        LET u == update(kalman_filter, sku, views, purchases)
        IN  /\ ecalls < MaxUpdates
            /\ ecalls' = ecalls + 1
            /\ kalman_filter' = u.filter
            /\ eres' = [op |-> "update", sku |-> sku, views |-> views,
                        purchases |-> purchases, estimate |-> u.estimate,
                        uncertainty |-> u.uncertainty]
            /\ UNCHANGED <<drift_detector, recent_added, anomaly_detector>>
            /\ UNCHANGED nonEngineVars

\* ConversionKalmanFilter.detect_deviation(sku, views, purchases)
KalmanDetectDeviation ==
    \E sku \in KalmanSkus, views \in KalmanViews, purchases \in KalmanPurchases :
        LET dv == detect_deviation(kalman_filter, sku, views, purchases)
        IN  /\ ecalls < MaxUpdates
            /\ ecalls' = ecalls + 1
            /\ kalman_filter' = dv.filter
            /\ eres' = [op |-> "detect_deviation", sku |-> sku, views |-> views,
                        purchases |-> purchases,
                        result |-> [f \in DOMAIN dv \ {"filter"} |-> dv[f]]]
            /\ UNCHANGED <<drift_detector, recent_added, anomaly_detector>>
            /\ UNCHANGED nonEngineVars

KalmanNext ==
    \/ KalmanUpdate
    \/ KalmanDetectDeviation

-----------------------------------------------------------------------------
(* Anomaly detector *)

\* AnomalyDetector.__init__: nothing trained, every history empty
AnomalyDetector ==
    [is_trained |-> FALSE,
     price_history |-> <<>>, stock_history |-> <<>>,
     referrer_counts |-> <<>>, conversion_history |-> <<>>,
     last_price |-> <<>>, last_stock |-> <<>>]

\* AnomalyDetector.update_history, every per-SKU list capped at the last 100
\* values; a missing key of a defaultdict reads as empty
ListOf(h, key) == IF key \in DOMAIN h THEN h[key] ELSE <<>>

Put(h, key, value) == [x \in DOMAIN h \cup {key} |-> IF x = key THEN value ELSE h[x]]

AppendCapped(h, key, value) ==
    LET l == Append(ListOf(h, key), value)
    IN  Put(h, key, IF Len(l) > HistoryCap THEN SliceLast(l, HistoryCap) ELSE l)

\* counter[key] += 1
Inc(counter, key) ==
    Put(counter, key, (IF key \in DOMAIN counter THEN counter[key] ELSE 0) + 1)

update_history(an, record) ==
    LET conv == IF record.views > 0
                THEN AppendCapped(an.conversion_history, record.sku,
                                  Rate(record.purchases, record.views))
                ELSE an.conversion_history
    IN  [an EXCEPT
            !.price_history = AppendCapped(an.price_history, record.sku, record.price),
            !.stock_history = AppendCapped(an.stock_history, record.sku, record.stock),
            !.referrer_counts = Inc(an.referrer_counts, record.referrer),
            !.conversion_history = conv,
            !.last_price = Put(an.last_price, record.sku, record.price),
            !.last_stock = Put(an.last_stock, record.sku, record.stock)]

\* AnomalyDetector.extract_features: the two features that depend on the
\* previous record of the SKU, price_delta_pct in hundredths
extract_features(an, record) ==
    [price_delta_pct |->
        IF record.sku \in DOMAIN an.last_price /\ an.last_price[record.sku] > 0
        THEN (Abs(record.price - an.last_price[record.sku]) * 100)
                 \div an.last_price[record.sku]
        ELSE 0,
     stock_change |->
        IF record.sku \in DOMAIN an.last_stock
        THEN Abs(record.stock - an.last_stock[record.sku])
        ELSE 0]

MinTraining == 10

\* AnomalyDetector.train: the history is updated with each record in turn
RECURSIVE train(_, _)
train(an, records) ==
    IF records = <<>> THEN [an EXCEPT !.is_trained = TRUE]
    ELSE train(update_history(an, Head(records)), Tail(records))

\* float('nan') as a price: held as a code that no price of the model takes.
\* It is below every threshold the source compares a price with by > or >=,
\* comparisons that are False for a nan.
NaN == 0 - 1

\* what the fitted IsolationForest may answer for a feature vector:
\* prediction and score_samples value, in StatScale units
ForestOutcomes ==
    { [is_anomaly |-> FALSE, anomaly_score |-> 0 - 400],
      [is_anomaly |-> TRUE, anomaly_score |-> 0 - 450],
      [is_anomaly |-> TRUE, anomaly_score |-> 0 - 600] }

\* the answers of the forest predict consults: none but a placeholder when
\* the detector is not trained
ForestAnswers(an) ==
    IF an.is_trained THEN ForestOutcomes
    ELSE {[is_anomaly |-> FALSE, anomaly_score |-> 0]}

\* self.model.predict(X) raises ValueError for a feature vector that holds a
\* nan, which the price of the record makes of price_delta_pct and
\* price_magnitude
ForestRaises(an, req) == an.is_trained /\ req.price = NaN

\* predict with the history updated before the features are extracted
predictUpdateFirst(an, record, forest) ==
    IF ~an.is_trained
    THEN [detector |-> an,
          result |-> [is_anomaly |-> FALSE, anomaly_score |-> 0,
                      reason |-> Some("Model not trained")]]
    ELSE [detector |-> update_history(an, record),
          result |-> [is_anomaly |-> forest.is_anomaly,
                      anomaly_score |-> forest.anomaly_score,
                      features |-> extract_features(update_history(an, record), record),
                      reason |-> None]]

\* AnomalyDetector.predict: the detector afterwards and the result
predict(an, record, forest) ==
    IF ~an.is_trained
    THEN [detector |-> an,
          result |-> [is_anomaly |-> FALSE, anomaly_score |-> 0,
                      reason |-> Some("Model not trained")]]
    ELSE [detector |-> update_history(an, record),
          result |-> [is_anomaly |-> forest.is_anomaly,
                      anomaly_score |-> forest.anomaly_score,
                      features |-> extract_features(an, record),
                      reason |-> None]]

\* the record dicts given to predict: the base record, and it with another
\* price, another stock, another SKU without views, and a nan price
AnomalyRecords ==
    { [timestamp |-> 0, sku |-> "SKU-001", price |-> Price(50, 0), stock |-> 100,
       views |-> 30, add_to_cart |-> 3, purchases |-> 3, referrer |-> Some("google")],
      [timestamp |-> 0, sku |-> "SKU-001", price |-> Price(60, 0), stock |-> 100,
       views |-> 30, add_to_cart |-> 3, purchases |-> 3, referrer |-> Some("google")],
      [timestamp |-> 0, sku |-> "SKU-001", price |-> Price(50, 0), stock |-> 7,
       views |-> 30, add_to_cart |-> 3, purchases |-> 3, referrer |-> Some("google")],
      [timestamp |-> 0, sku |-> "SKU-002", price |-> Price(20, 0), stock |-> 40,
       views |-> 0, add_to_cart |-> 0, purchases |-> 0, referrer |-> None],
      [timestamp |-> 0, sku |-> "SKU-001", price |-> NaN, stock |-> 100,
       views |-> 30, add_to_cart |-> 3, purchases |-> 3, referrer |-> Some("google")] }

\* AnomalyDetector.predict(record), by a caller of the detector
AnomalyPredict ==
    \E record \in AnomalyRecords, forest \in ForestAnswers(anomaly_detector) :
        LET raised == ForestRaises(anomaly_detector, record)
            p == predict(anomaly_detector, record, forest)
        IN  /\ ecalls < MaxPredicts
            /\ ecalls' = ecalls + 1
            /\ anomaly_detector' = IF raised THEN anomaly_detector ELSE p.detector
            /\ eres' = IF raised
                       THEN [op |-> "predict", record |-> record, raised |-> TRUE]
                       ELSE [op |-> "predict", record |-> record, raised |-> FALSE,
                             result |-> p.result]
            /\ UNCHANGED <<drift_detector, recent_added, kalman_filter>>
            /\ UNCHANGED nonEngineVars

AnomalyNext == AnomalyPredict

\* the features_list of train: each record's features are extracted after
\* update_history was called with that record
RECURSIVE features_list(_, _)
features_list(an, records) ==
    IF records = <<>> THEN <<>>
    ELSE LET updated == update_history(an, Head(records))
         IN  <<extract_features(updated, Head(records))>>
                 \o features_list(updated, Tail(records))

\* the batches train is called with: one record short of MinTraining, or
\* MinTraining records of which the last two are any of AnomalyRecords with
\* a price
TrainingBatches ==
    { [i \in 1..(MinTraining - 1) |-> CHOOSE r \in AnomalyRecords : r.price = Price(50, 0) /\ r.stock = 100] }
    \cup { [i \in 1..MinTraining |->
               IF i = MinTraining - 1 THEN a
               ELSE IF i = MinTraining THEN b
                    ELSE CHOOSE r \in AnomalyRecords : r.price = Price(50, 0) /\ r.stock = 100] :
              a, b \in {r \in AnomalyRecords : r.price # NaN} }

\* AnomalyDetector.train(records), before any predict; a batch of fewer than
\* MinTraining records raises ValueError and changes nothing
AnomalyTrain ==
    \E records \in TrainingBatches :
        LET raised == Len(records) < MinTraining
        IN  /\ ecalls = 0
            /\ eres = NoCall
            /\ anomaly_detector' = IF raised THEN anomaly_detector
                                   ELSE train(anomaly_detector, records)
            /\ eres' = IF raised
                       THEN [op |-> "train", records |-> records, raised |-> TRUE]
                       ELSE [op |-> "train", records |-> records, raised |-> FALSE,
                             features |-> features_list(anomaly_detector, records)]
            /\ UNCHANGED <<drift_detector, recent_added, kalman_filter, ecalls>>
            /\ UNCHANGED nonEngineVars

TrainNext ==
    \/ AnomalyTrain
    \/ AnomalyPredict

-----------------------------------------------------------------------------
(* The ingest endpoint *)

\* MetricsCollector.__init__: the counters, by label, and the gauges; the
\* histograms of latencies and scores are not held
MetricsCollector ==
    [ingest_requests |-> <<>>, validation_failures |-> <<>>,
     drift_detections |-> <<>>, anomaly_detections |-> <<>>,
     alert_count |-> <<>>, processing_errors |-> <<>>,
     records_processed |-> 0, validation_pass_rate |-> 0,
     drift_score_price |-> 0, drift_score_stock |-> 0,
     active_alerts |-> <<>>]

record_ingest(m, status) == [m EXCEPT !.ingest_requests = Inc(@, status)]

record_validation(m, passed, violation_type) ==
    IF ~passed /\ Truthy(violation_type)
    THEN [m EXCEPT !.validation_failures = Inc(@, violation_type[1])]
    ELSE m

update_validation_pass_rate(m, rate) == [m EXCEPT !.validation_pass_rate = rate]

record_drift(m, metric_type, psi, detected, severity) ==
    LET g == IF metric_type = "price" THEN [m EXCEPT !.drift_score_price = psi]
             ELSE IF metric_type = "stock" THEN [m EXCEPT !.drift_score_stock = psi]
             ELSE m
    IN  IF detected
        THEN [g EXCEPT !.drift_detections = Inc(@, <<metric_type, severity>>)]
        ELSE g

record_anomaly(m, score, detected, severity) ==
    IF detected THEN [m EXCEPT !.anomaly_detections = Inc(@, severity)] ELSE m

record_alert_created(m, severity, alert_type) ==
    [m EXCEPT !.alert_count = Inc(@, <<severity, alert_type>>)]

\* the values of AlertSeverity and the alert types the gauge is reset for
Severities == {"low", "medium", "high", "critical"}
AlertTypes == {"contract_violation", "drift", "anomaly", "conversion_deviation"}

\* update_active_alerts for the listed alerts: every label is reset to zero
\* and then set to the number of listed alerts that are not resolved
update_active_alerts(m, listed) ==
    [m EXCEPT !.active_alerts =
        [l \in Severities \X AlertTypes |->
            Cardinality({i \in DOMAIN listed :
                            /\ ~listed[i].resolved
                            /\ listed[i].severity = l[1]
                            /\ listed[i].alert_type = l[2]})]]

record_record_processed(m) == [m EXCEPT !.records_processed = @ + 1]

record_processing_error(m, error_type) ==
    [m EXCEPT !.processing_errors = Inc(@, error_type)]

\* the request bodies TelemetryRecordRequest accepts: every field present and
\* of its type, with no constraint on the values.  In order: a valid record,
\* one whose add_to_cart exceeds its views, one with a negative stock, a
\* stale one priced in cents, one of another SKU without views, one with an
\* empty sku, one whose price is the JSON literal NaN, and a stale one at
\* twelve times the base price.
BaseRequest ==
    [timestamp |-> 0, sku |-> "SKU-001", price |-> Price(50, 0), stock |-> 100,
     views |-> 30, add_to_cart |-> 3, purchases |-> 3, referrer |-> Some("google")]

IngestRequests ==
    { BaseRequest,
      [BaseRequest EXCEPT !.add_to_cart = 50, !.purchases = 40],
      [BaseRequest EXCEPT !.stock = 0 - 10, !.price = Price(60, 0)],
      [BaseRequest EXCEPT !.price = Price(1999, 99), !.timestamp = StaleSeconds + 3600],
      [BaseRequest EXCEPT !.sku = "SKU-002", !.price = Price(20, 0), !.views = 0,
                          !.add_to_cart = 0, !.purchases = 0, !.referrer = None],
      [BaseRequest EXCEPT !.sku = "", !.stock = 7],
      [BaseRequest EXCEPT !.price = NaN],
      [BaseRequest EXCEPT !.price = Price(600, 0), !.timestamp = StaleSeconds + 3600] }

\* record.model_dump(): the dict validate_record is given
model_dump(req) ==
    [timestamp |-> Some(req.timestamp), sku |-> Some(req.sku), price |-> Num(req.price),
     stock |-> Some(req.stock), views |-> Some(req.views),
     add_to_cart |-> Some(req.add_to_cart), purchases |-> Some(req.purchases),
     referrer |-> req.referrer]

\* the same dict as the drift detector reads it with record.get
DriftView(req) ==
    [sku |-> Some(req.sku), price |-> Some(req.price), stock |-> Some(req.stock),
     views |-> req.views, purchases |-> req.purchases]

SeverityOfAlwaysMedium(severity_str) == "medium"

\* severity_map.get(severity_str.lower(), AlertSeverity.MEDIUM)
SeverityOf(severity_str) ==
    IF severity_str \in {"low", "medium", "high", "critical"} THEN severity_str
    ELSE "medium"

\* np.mean of a list, rounded down; 0 for an empty list
RECURSIVE SumSeq(_)
SumSeq(s) == IF s = <<>> THEN 0 ELSE Head(s) + SumSeq(Tail(s))

Mean(s) == IF s = <<>> THEN 0 ELSE SumSeq(s) \div Len(s)

\* The create_*_alert methods: the arguments they pass to create_alert, as a
\* sequence of one element, or the empty sequence when they return None.
\* dict.get(key, default)
Get(d, key, default) == IF key \in DOMAIN d THEN d[key] ELSE default

create_contract_violation_alert(violation, req) ==
    << [alert_type |-> "contract_violation",
        severity |-> SeverityOf(violation.severity),
        sku |-> violation.sku,
        last_good_state |-> [price |-> req.price, stock |-> req.stock,
                             timestamp |-> req.timestamp],
        metadata |-> [violation_type |-> violation.violation_type]] >>

\* create_drift_alert grading the severity by the PSI alone
create_drift_alert_by_psi(drift_result, metric_type, baseline) ==
    IF ~Get(drift_result, "drift_detected", FALSE) THEN <<>>
    ELSE << [alert_type |-> "drift",
             severity |-> IF drift_result.psi > 500 THEN "critical"
                          ELSE IF drift_result.psi > 300 THEN "high" ELSE "medium",
             sku |-> None,
             last_good_state |-> [baseline_mean |-> Mean(baseline)],
             metadata |-> [metric_type |-> metric_type, psi |-> drift_result.psi,
                           ks_pvalue |-> drift_result.ks_pvalue]] >>

create_drift_alert(drift_result, metric_type, baseline) ==
    IF ~Get(drift_result, "drift_detected", FALSE) THEN <<>>
    ELSE << [alert_type |-> "drift",
             severity |-> IF drift_result.psi > 500 \/ drift_result.ks_pvalue < 10
                          THEN "critical"
                          ELSE IF drift_result.psi > 300 \/ drift_result.ks_pvalue < 50
                               THEN "high"
                               ELSE "medium",
             sku |-> None,
             last_good_state |-> [baseline_mean |-> Mean(baseline)],
             metadata |-> [metric_type |-> metric_type, psi |-> drift_result.psi,
                           ks_pvalue |-> drift_result.ks_pvalue]] >>

\* create_anomaly_alert taking a result without the is_anomaly key for an
\* anomaly
create_anomaly_alert_default_true(anomaly_result, req) ==
    IF ~Get(anomaly_result, "is_anomaly", TRUE) THEN <<>>
    ELSE << [alert_type |-> "anomaly",
             severity |-> "medium",
             sku |-> Some(req.sku),
             last_good_state |-> [price |-> req.price, stock |-> req.stock,
                                  views |-> req.views, purchases |-> req.purchases],
             metadata |-> [anomaly_score |-> Get(anomaly_result, "anomaly_score", 0)]] >>

create_anomaly_alert(anomaly_result, req) ==
    IF ~Get(anomaly_result, "is_anomaly", FALSE) THEN <<>>
    ELSE << [alert_type |-> "anomaly",
             severity |-> IF anomaly_result.anomaly_score < 0 - 500 THEN "critical"
                          ELSE IF anomaly_result.anomaly_score < 0 - 300 THEN "high"
                               ELSE "medium",
             sku |-> Some(req.sku),
             last_good_state |-> [price |-> req.price, stock |-> req.stock,
                                  views |-> req.views, purchases |-> req.purchases],
             metadata |-> [anomaly_score |-> anomaly_result.anomaly_score]] >>

create_conversion_deviation_alert(deviation_result, sku) ==
    IF ~Get(deviation_result, "deviation_detected", FALSE) THEN <<>>
    ELSE << [alert_type |-> "conversion_deviation",
             severity |-> IF deviation_result.z_score > 3 * KScale THEN "critical"
                          ELSE IF 2 * deviation_result.z_score > 5 * KScale THEN "high"
                               ELSE "medium",
             sku |-> Some(sku),
             last_good_state |-> [expected_conversion |-> deviation_result.expected_conversion,
                                  uncertainty |-> deviation_result.uncertainty],
             metadata |-> [z_score |-> deviation_result.z_score]] >>

\* the severity labels ingest_telemetry computes for the metrics
DriftLabel(psi) ==
    IF psi > 500 THEN "critical" ELSE IF psi > 300 THEN "high" ELSE "medium"

AnomalyLabel(score) ==
    IF score < 0 - 500 THEN "critical" ELSE IF score < 0 - 300 THEN "high" ELSE "medium"

DeviationLabel(z_score) ==
    IF z_score > 3 * KScale THEN "critical"
    ELSE IF 2 * z_score > 5 * KScale THEN "high" ELSE "medium"

\* create_alert for the argument records with the id counter read once: every
\* alert of the call is given the same number
StoreAlertsOneNumber(als, counter, specs, ts, ids) ==
    IF specs = <<>> THEN [alerts |-> als, alert_counter |-> counter, ids |-> ids]
    ELSE LET c == NextCounter(counter)
             s == specs[Len(specs)]
             t == ts[Len(specs)]
             a == Alert(AlertIdOf(t, c), s.alert_type, s.severity, s.sku, t)
                    @@ [last_good_state |-> s.last_good_state, metadata |-> s.metadata]
         IN  [alerts |-> DictSet(als, a), alert_counter |-> c,
              ids |-> ids \o [i \in DOMAIN specs |-> AlertIdOf(ts[i], c)]]

\* create_alert for each of the argument records in turn, the i-th at time
\* ts[i]: the alert table, the counter and the ids handed out
RECURSIVE StoreAlerts(_, _, _, _, _)
StoreAlerts(als, counter, specs, ts, ids) ==
    IF specs = <<>> THEN [alerts |-> als, alert_counter |-> counter, ids |-> ids]
    ELSE LET c == NextCounter(counter)
             id == AlertIdOf(Head(ts), c)
             s == Head(specs)
             a == Alert(id, s.alert_type, s.severity, s.sku, Head(ts))
                    @@ [last_good_state |-> s.last_good_state, metadata |-> s.metadata]
         IN  StoreAlerts(DictSet(als, a), c, Tail(specs), Tail(ts), Append(ids, id))

\* record_alert_created for each alert of a sequence, with the alert's own
\* severity and type
RECURSIVE CountAlerts(_, _)
CountAlerts(m, specs) ==
    IF specs = <<>> THEN m
    ELSE CountAlerts(record_alert_created(m, Head(specs).severity, Head(specs).alert_type),
                     Tail(specs))

RECURSIVE Flatten(_)
Flatten(ss) == IF ss = <<>> THEN <<>> ELSE Head(ss) \o Flatten(Tail(ss))

\* the result of the Kalman step of an ingest: detect_deviation runs only for
\* a record with views and a non-empty sku
DeviationStep(k, req) ==
    IF req.views > 0 /\ req.sku # ""
    THEN detect_deviation(k, req.sku, req.views, req.purchases)
    ELSE [filter |-> k, deviation_detected |-> FALSE, reason |-> None, z_score |-> 0]

\* The metrics calls of ingest_telemetry, stage by stage.
\* routes.py:66-82: the validation result and the alerts of the violations
ValidationMetrics(m, validation, violation_alerts) ==
    IF ~validation.is_valid
    THEN CountAlerts(
           record_validation(m, FALSE,
              IF validation.violations # <<>>
              THEN Some(validation.violations[1].violation_type) ELSE None),
           violation_alerts)
    ELSE record_validation(m, TRUE, None)

\* routes.py:92-110: one drift result and its alert
DriftMetrics(m, metric_type, drift_result, alert) ==
    IF drift_result.drift_detected /\ alert # <<>>
    THEN record_alert_created(
           record_drift(m, metric_type, drift_result.psi, TRUE, DriftLabel(drift_result.psi)),
           DriftLabel(drift_result.psi), "drift")
    ELSE m

\* routes.py:116-123
AnomalyMetrics(m, anomaly, alert) ==
    IF anomaly.is_anomaly /\ alert # <<>>
    THEN record_alert_created(
           record_anomaly(m, anomaly.anomaly_score, TRUE, AnomalyLabel(anomaly.anomaly_score)),
           AnomalyLabel(anomaly.anomaly_score), "anomaly")
    ELSE m

\* routes.py:132-138
DeviationMetrics(m, deviation, alert) ==
    IF deviation.deviation_detected /\ alert # <<>>
    THEN record_alert_created(m, DeviationLabel(deviation.z_score), "conversion_deviation")
    ELSE m

\* routes.py:141-149
ClosingMetrics(m, is_valid) ==
    update_validation_pass_rate(
        record_record_processed(
            record_ingest(m, IF is_valid THEN "success" ELSE "validation_error")),
        IF is_valid THEN 1 ELSE 0)

\* routes.py:158-160: the except branch
ErrorMetrics(m) == record_ingest(record_processing_error(m, "exception"), "error")

\* the price history and the list of appended prices after validate_record(r)
HistoryAfter(ph, r) ==
    IF FieldErrors(r) # {} THEN ph ELSE UpdatedHistory(ph, normalized_record(r))

AppendedAfter(app, r) ==
    IF FieldErrors(r) # {} THEN app
    ELSE LET n == normalized_record(r)
         IN  Put(app, n.sku, Append(ListOf(app, n.sku), n.price))

\* the statistics detect_all_drift computes: none, held as those of equal
\* samples, when a detector returns for insufficient data before computing;
\* of StatOutcomes the ingests take no drift, drift by the p-value alone and
\* drift by both
ComputedStatistics(baseline, recent) ==
    IF Len(baseline) < MinBaseline \/ Len(recent) < MinRecent
    THEN {[psi |-> 0, ks_statistic |-> 0, ks_pvalue |-> StatScale]}
    ELSE Statistics(baseline, recent) \ {[psi |-> 250, ks_statistic |-> 400, ks_pvalue |-> 200]}

\* ingest_telemetry(record), the whole handler: it holds no await, so the
\* event loop runs it from its first line to its response.  The clock reads
\* `now` for the first alerts the request creates and `later` for the rest.
\* When predict raises, the handler leaves by its except branch with the
\* alerts of the violations and of the drift results created.
HandleIngest(req) ==
    \E forest \in ForestAnswers(anomaly_detector), later \in {now, now + 1} :
        LET record == model_dump(req)
            validation == ValidationOf(record, price_history, max_price)
            violation_alerts ==
                IF validation.is_valid THEN <<>>
                ELSE Flatten([i \in DOMAIN validation.violations |->
                        create_contract_violation_alert(validation.violations[i], req)])
            drift == FeedRecord(drift_detector, DriftView(req))
            raised == ForestRaises(anomaly_detector, req)
            an == predict(anomaly_detector, req, forest)
            anomaly_alert == create_anomaly_alert(an.result, req)
            deviation == DeviationStep(kalman_filter, req)
            deviation_alert == create_conversion_deviation_alert(deviation, req.sku)
        IN  /\ ecalls < MaxIngests
            /\ later <= MaxTime
            /\ \E sp \in ComputedStatistics(drift.baseline_data.price, drift.recent_data.price),
                  ss \in ComputedStatistics(drift.baseline_data.stock, drift.recent_data.stock) :
                  LET price_drift == DetectDrift(drift.baseline_data.price,
                                                 drift.recent_data.price, sp)
                      stock_drift == DetectDrift(drift.baseline_data.stock,
                                                 drift.recent_data.stock, ss)
                      price_alert == create_drift_alert(price_drift, "price",
                                                        drift.baseline_data.price)
                      stock_alert == create_drift_alert(stock_drift, "stock",
                                                        drift.baseline_data.stock)
                      specs == violation_alerts \o price_alert \o stock_alert
                                 \o (IF raised THEN <<>> ELSE anomaly_alert \o deviation_alert)
                      m3 == DriftMetrics(
                              DriftMetrics(
                                ValidationMetrics(metrics, validation, violation_alerts),
                                "price", price_drift, price_alert),
                              "stock", stock_drift, stock_alert)
                  IN  \E k \in 0..Len(specs) :
                        LET ts == [i \in DOMAIN specs |-> IF i <= k THEN now ELSE later]
                            stored == StoreAlerts(alerts, alert_counter, specs, ts, <<>>)
                        IN  /\ (later = now => k = Len(specs))
                            /\ alerts' = stored.alerts
                            /\ alert_counter' = stored.alert_counter
                            /\ created' = created \o stored.ids
                            /\ metrics' =
                                 IF raised THEN ErrorMetrics(m3)
                                 ELSE ClosingMetrics(
                                        DeviationMetrics(
                                          AnomalyMetrics(m3, an.result, anomaly_alert),
                                          deviation, deviation_alert),
                                        validation.is_valid)
                            /\ eres' =
                                 IF raised
                                 THEN [op |-> "ingest", request |-> req, status |-> 500,
                                       alert_ids |-> stored.ids]
                                 ELSE [op |-> "ingest", request |-> req, status |-> 200,
                                       success |-> validation.is_valid,
                                       violations |-> validation.violations,
                                       alerts_created |-> Len(specs),
                                       alert_ids |-> stored.ids]
            /\ now' = later
            /\ ecalls' = ecalls + 1
            /\ vres' = [op |-> "validate", record |-> record,
                        repeated |-> vres.op = "validate" /\ vres.record = record]
                           @@ validation
            /\ calls' = calls + 1
            /\ price_history' = HistoryAfter(price_history, record)
            /\ appended' = AppendedAfter(appended, record)
            /\ violations_file' = IF validation.is_valid THEN violations_file
                                  ELSE violations_file \o validation.violations
            /\ drift_detector' = drift
            /\ recent_added' = IF drift_detector.baseline_ready
                               THEN AddedToRecent(recent_added, DriftView(req))
                               ELSE recent_added
            /\ anomaly_detector' = IF raised THEN anomaly_detector ELSE an.detector
            /\ kalman_filter' = IF raised THEN kalman_filter ELSE deviation.filter
            /\ UNCHANGED <<ret, purged, max_price>>

\* POST /ingest with each of the request bodies, by a client that sends one
\* request at a time
Ingest ==
    \E req \in IngestRequests :
        /\ HandleIngest(req)
        /\ responses' = Append(responses, eres' @@ [overlapped |-> FALSE])
        /\ UNCHANGED inflight

IngestNext == Ingest

\* Concurrent clients.  The server accepts a request while others wait: the
\* body is read and parsed in awaits of the framework, before the handler is
\* called.
Receive ==
    \E req \in IngestRequests :
        /\ ecalls + Len(inflight) < MaxIngests
        /\ inflight' = Append(inflight, req)
        /\ UNCHANGED <<metrics, violations_file, responses>>
        /\ UNCHANGED <<alertVars, validatorVars, engineVars>>

\* the event loop runs the handler of one of the waiting requests
Handle ==
    \E i \in DOMAIN inflight :
        /\ HandleIngest(inflight[i])
        /\ responses' = Append(responses, eres' @@ [overlapped |-> Len(inflight) > 1])
        /\ inflight' = SubSeq(inflight, 1, i - 1) \o SubSeq(inflight, i + 1, Len(inflight))

ConcurrentNext ==
    \/ Receive
    \/ Handle

\* the records initialize_anomaly_detector trains the anomaly detector on
TrainingBatch == [i \in 1..MinTraining |-> BaseRequest]

\* The engines after n earlier ingests of the base request, each found
\* valid, normal and without drift: the drift detector, the anomaly
\* detector, the Kalman filter, the validator's history and the metrics
RECURSIVE FedTimes(_, _)
FedTimes(d, n) ==
    IF n = 0 THEN d ELSE FedTimes(FeedRecord(d, DriftView(BaseRequest)), n - 1)

RECURSIVE PredictedTimes(_, _)
PredictedTimes(an, n) ==
    IF n = 0 THEN an
    ELSE PredictedTimes(
           predict(an, BaseRequest, [is_anomaly |-> FALSE, anomaly_score |-> 0 - 400]).detector,
           n - 1)

RECURSIVE DeviationTimes(_, _)
DeviationTimes(k, n) ==
    IF n = 0 THEN k ELSE DeviationTimes(DeviationStep(k, BaseRequest).filter, n - 1)

RECURSIVE ValidatedTimes(_, _)
ValidatedTimes(ph, n) ==
    IF n = 0 THEN ph ELSE ValidatedTimes(HistoryAfter(ph, model_dump(BaseRequest)), n - 1)

RECURSIVE CountedTimes(_, _)
CountedTimes(m, n) ==
    IF n = 0 THEN m
    ELSE CountedTimes(ClosingMetrics(record_validation(m, TRUE, None), TRUE), n - 1)

\* the earlier ingests of an application that has been serving: enough to
\* complete the baseline and to leave the recent windows one value short of
\* MinRecent
ServedIngests == MinRecent

-----------------------------------------------------------------------------
(* The alert listing endpoint *)

\* the severity query parameters of GET /alerts: none, empty, a value of
\* AlertSeverity in lower and in upper case, and a word that is no severity
SeverityParams == {None, Some(""), Some("high"), Some("HIGH"), Some("urgent")}

\* str.lower() on the parameters of the model
lower(str) == IF str = "HIGH" THEN "high" ELSE str

\* GET /alerts, the route get_alerts.  AlertSeverity(...) raises ValueError
\* for a word that is no severity and the handler raises HTTPException(400)
\* for it inside its outer try, whose `except Exception` catches that
\* HTTPException and raises HTTPException(500) in its place.  Otherwise the
\* manager purges and lists, the gauge is updated and get_alert_stats runs.
GetAlertsRoute ==
    \E severity \in SeverityParams :
        LET invalid == Truthy(severity) /\ lower(severity[1]) \notin Severities
            f == [severity |-> IF Truthy(severity) THEN Some(lower(severity[1])) ELSE None,
                  alert_type |-> None, sku |-> None, resolved |-> None, limit |-> 100]
            listed == Listing(alerts, f, now)
        IN  /\ ret = NoCall
            /\ alerts' = IF invalid THEN alerts ELSE CleanupExpired(alerts, now)
            /\ purged' = IF invalid THEN purged ELSE purged \cup PurgedIds(alerts, now)
            /\ metrics' = IF invalid THEN metrics ELSE update_active_alerts(metrics, listed)
            /\ ret' = IF invalid
                      THEN [op |-> "GET /alerts", severity |-> severity, status |-> 500,
                            caught |-> 400]
                      ELSE [op |-> "GET /alerts", severity |-> severity, status |-> 200,
                            alerts |-> listed, total |-> Len(listed),
                            stats |-> StatsOf(CleanupExpired(alerts, now))]
            /\ UNCHANGED <<now, alert_counter, created>>
            /\ UNCHANGED <<validatorVars, engineVars, violations_file, inflight, responses>>

ListingNext ==
    \/ CreateAlert
    \/ ResolveAlert
    \/ GetAlertsRoute
    \/ Return
    \/ Tick

-----------------------------------------------------------------------------
(* Drift alerts *)

\* the PSI values and KS p-values of the drift results handed to
\* create_drift_alert, on both sides of every threshold
AlertPsis == {0, 250, 260, 300, 301, 500, 501}
AlertPvalues == {5, 10, 49, 50, StatScale}

\* the results of detect_price_drift / detect_stock_drift with these
\* statistics, and a dict without the drift_detected key
DriftResults ==
    { [drift_detected |-> psi > psi_threshold \/ p < ks_threshold,
       psi |-> psi, ks_statistic |-> 0, ks_pvalue |-> p, reason |-> None] :
          psi \in AlertPsis, p \in AlertPvalues }
    \cup { [psi |-> 600, ks_pvalue |-> 5] }

\* AlertManager.create_drift_alert(drift_result, metric_type): the alert it
\* returns is stored by create_alert under the next id
CreateDriftAlert ==
    \E drift_result \in DriftResults, metric_type \in {"price", "stock"} :
        /\ ret = NoCall
        /\ alert_counter < MaxAlerts
        /\ LET specs == create_drift_alert(drift_result, metric_type,
                                           [i \in 1..MinBaseline |-> Price(50, 0)])
               st == StoreAlerts(alerts, alert_counter, specs,
                                 [i \in DOMAIN specs |-> now], <<>>)
           IN  /\ alerts' = st.alerts
               /\ alert_counter' = st.alert_counter
               /\ created' = created \o st.ids
               /\ ret' = [op |-> "create_drift_alert", drift_result |-> drift_result,
                          metric_type |-> metric_type, alert_ids |-> st.ids]
        /\ UNCHANGED <<now, purged>>
        /\ UNCHANGED nonAlertVars

\* the results of predict handed to create_anomaly_alert: the answers of
\* the forest, the answer of a detector that is not trained, and a dict
\* without the is_anomaly key
AnomalyResults ==
    { [is_anomaly |-> f.is_anomaly, anomaly_score |-> f.anomaly_score, reason |-> None] :
          f \in ForestOutcomes }
    \cup { [is_anomaly |-> FALSE, anomaly_score |-> 0, reason |-> Some("Model not trained")],
           [anomaly_score |-> 0 - 600] }

\* the results of detect_deviation handed to create_conversion_deviation_alert:
\* the one for a record without views, deviations on both sides of the
\* severity thresholds, and a dict without the deviation_detected key
DeviationResults ==
    { [deviation_detected |-> FALSE, reason |-> Some("No views")],
      [z_score |-> 4 * KScale] }
    \cup { [deviation_detected |-> z > threshold_sigma * KScale, z_score |-> z,
            expected_conversion |-> Frac(1, 10), uncertainty |-> Frac(1, 100)] :
              z \in {KScale, 22000, 27000, 35000} }

\* AlertManager.create_anomaly_alert(anomaly_result, record)
CreateAnomalyAlert ==
    \E anomaly_result \in AnomalyResults :
        /\ ret = NoCall
        /\ alert_counter < MaxAlerts
        /\ LET specs == create_anomaly_alert(anomaly_result, BaseRequest)
               st == StoreAlerts(alerts, alert_counter, specs,
                                 [i \in DOMAIN specs |-> now], <<>>)
           IN  /\ alerts' = st.alerts
               /\ alert_counter' = st.alert_counter
               /\ created' = created \o st.ids
               /\ ret' = [op |-> "create_anomaly_alert", anomaly_result |-> anomaly_result,
                          alert_ids |-> st.ids]
        /\ UNCHANGED <<now, purged>>
        /\ UNCHANGED nonAlertVars

\* AlertManager.create_conversion_deviation_alert(deviation_result, sku)
CreateConversionDeviationAlert ==
    \E deviation_result \in DeviationResults :
        /\ ret = NoCall
        /\ alert_counter < MaxAlerts
        /\ LET specs == create_conversion_deviation_alert(deviation_result, "SKU-001")
               st == StoreAlerts(alerts, alert_counter, specs,
                                 [i \in DOMAIN specs |-> now], <<>>)
           IN  /\ alerts' = st.alerts
               /\ alert_counter' = st.alert_counter
               /\ created' = created \o st.ids
               /\ ret' = [op |-> "create_conversion_deviation_alert",
                          deviation_result |-> deviation_result, alert_ids |-> st.ids]
        /\ UNCHANGED <<now, purged>>
        /\ UNCHANGED nonAlertVars

DriftAlertNext ==
    \/ CreateDriftAlert
    \/ CreateAnomalyAlert
    \/ CreateConversionDeviationAlert
    \/ Return
    \/ Tick

-----------------------------------------------------------------------------
(* Conversion drift of a SKU *)

\* the default of the window argument of detect_conversion_drift, and the
\* window arguments it is called with
DefaultConversionWindow == 100
ConversionWindows == {10, 20, DefaultConversionWindow}

\* the shortest history detect_conversion_drift compares
MinConversions == 10

\* an index of a Python slice over a list of n elements: a negative index
\* counts from the end, and both ends are clamped to the list
PyIndex(n, i) == IF i < 0 THEN Max(n + i, 0) ELSE Min(i, n)

\* list[start:stop] over a list of n elements, as the first and the last
\* position (counted from 1) it takes; it is empty when first > last
PySlice(n, start, stop) ==
    [first |-> PyIndex(n, start) + 1, last |-> PyIndex(n, stop)]

\* the elements of s at the positions of a slice
Taken(s, slice) == SubSeq(s, slice.first, slice.last)

\* history[-window:-window//2] if len(history) > window
\* else history[:-len(history)//2]; -x//2 is the floor of -x / 2
BaselineSlice(n, window) ==
    IF n > window THEN PySlice(n, 0 - window, (0 - window) \div 2)
    ELSE PySlice(n, 0, (0 - n) \div 2)

\* history[-window//2:] if len(history) > window//2
\* else history[-len(history)//2:]
RecentSlice(n, window) ==
    IF n > window \div 2 THEN PySlice(n, (0 - window) \div 2, n)
    ELSE PySlice(n, (0 - n) \div 2, n)

\* the verdicts the t-test leaves open: drift needs a p-value below 0.05 and
\* means more than 0.02 apart; slices of one element compare the means only
ConversionVerdicts(baseline, recent) ==
    LET gap == Abs(Mean(recent) - Mean(baseline))
    IN IF Len(baseline) > 1 /\ Len(recent) > 1
       THEN IF gap * 100 > 2 * RateScale THEN BOOLEAN ELSE {FALSE}
       ELSE {gap * 100 > 5 * RateScale}

\* DriftDetector.detect_conversion_drift
detect_conversion_drift(d, sku, window, detected) ==
    LET history == ListOf(d.sku_conversion_history, sku)
        n == Len(history)
        baseline == BaselineSlice(n, window)
        recent == RecentSlice(n, window)
    IN IF n < MinConversions
       THEN [drift_detected |-> FALSE, reason |-> "Insufficient historical data"]
       ELSE IF baseline.first > baseline.last \/ recent.first > recent.last
       THEN [drift_detected |-> FALSE, reason |-> "Insufficient data for comparison"]
       ELSE [drift_detected |-> detected,
             baseline_conversion |-> Mean(Taken(history, baseline)),
             recent_conversion |-> Mean(Taken(history, recent))]

\* a call of detect_conversion_drift; the reply is kept with the call and
\* with the positions of the history the two slices took
DetectConversionDrift ==
    /\ eres = NoCall
    /\ \E sku \in {"SKU-001", "SKU-002"}, window \in ConversionWindows :
          LET history == ListOf(drift_detector.sku_conversion_history, sku)
              baseline == BaselineSlice(Len(history), window)
              recent == RecentSlice(Len(history), window)
          IN \E detected \in ConversionVerdicts(Taken(history, baseline),
                                                Taken(history, recent)) :
                eres' = [op |-> "detect_conversion_drift", sku |-> sku,
                         window |-> window, history |-> Len(history),
                         baseline |-> baseline, recent |-> recent,
                         result |-> detect_conversion_drift(drift_detector, sku,
                                                            window, detected)]
    /\ UNCHANGED <<drift_detector, recent_added, kalman_filter, anomaly_detector, ecalls>>
    /\ UNCHANGED nonEngineVars

ConversionNext == DetectConversionDrift

-----------------------------------------------------------------------------
(* Specifications *)

\* AlertManager() and DataContractValidator() as routes.py constructs them
InitAlerts ==
    /\ now = 0
    /\ alerts = <<>>
    /\ alert_counter = 0
    /\ ret = NoCall
    /\ created = <<>>
    /\ purged = {}
    /\ price_history = <<>>
    /\ max_price = Price(DefaultMaxPrice, 0)
    /\ vres = NoCall
    /\ calls = 0
    /\ appended = <<>>
    /\ drift_detector = DriftDetector(DefaultBaselineWindow)
    /\ recent_added = [price |-> <<>>, stock |-> <<>>]
    /\ kalman_filter = ConversionKalmanFilter(Frac(1, 100), Frac(5, 100), Frac(5, 100), Frac(1, 1))
    /\ anomaly_detector = AnomalyDetector
    /\ eres = NoCall
    /\ ecalls = 0
    /\ metrics = MetricsCollector
    /\ violations_file = <<>>
    /\ inflight = <<>>
    /\ responses = <<>>

\* DataContractValidator(max_price=...) beside an unused alert manager
InitValidator ==
    /\ now = 0
    /\ alerts = <<>>
    /\ alert_counter = 0
    /\ ret = NoCall
    /\ created = <<>>
    /\ purged = {}
    /\ price_history = <<>>
    /\ max_price \in MaxPrices
    /\ vres = NoCall
    /\ calls = 0
    /\ appended = <<>>
    /\ drift_detector = DriftDetector(DefaultBaselineWindow)
    /\ recent_added = [price |-> <<>>, stock |-> <<>>]
    /\ kalman_filter = ConversionKalmanFilter(Frac(1, 100), Frac(5, 100), Frac(5, 100), Frac(1, 1))
    /\ anomaly_detector = AnomalyDetector
    /\ eres = NoCall
    /\ ecalls = 0
    /\ metrics = MetricsCollector
    /\ violations_file = <<>>
    /\ inflight = <<>>
    /\ responses = <<>>

\* the alert manager on its own
SpecAlerts == InitAlerts /\ [][AlertsNext]_vars

\* the prices of a validator that has already validated n records of SKU-001,
\* priced 1, 2, ..., n dollars
PricesSoFar(n) == [i \in 1..n |-> Price(i, 0)]

\* DataContractValidator() after HistoryCap - 1 or HistoryCap such records
InitHistory ==
    /\ now = 0
    /\ alerts = <<>>
    /\ alert_counter = 0
    /\ ret = NoCall
    /\ created = <<>>
    /\ purged = {}
    /\ \E n \in {HistoryCap - 1, HistoryCap} :
          /\ price_history = [s \in {"SKU-001"} |-> PricesSoFar(n)]
          /\ appended = [s \in {"SKU-001"} |-> PricesSoFar(n)]
    /\ max_price = Price(DefaultMaxPrice, 0)
    /\ vres = NoCall
    /\ calls = 0
    /\ drift_detector = DriftDetector(DefaultBaselineWindow)
    /\ recent_added = [price |-> <<>>, stock |-> <<>>]
    /\ kalman_filter = ConversionKalmanFilter(Frac(1, 100), Frac(5, 100), Frac(5, 100), Frac(1, 1))
    /\ anomaly_detector = AnomalyDetector
    /\ eres = NoCall
    /\ ecalls = 0
    /\ metrics = MetricsCollector
    /\ violations_file = <<>>
    /\ inflight = <<>>
    /\ responses = <<>>

\* the contract validator on its own
SpecValidator == InitValidator /\ [][ValidatorNext]_vars

\* the contract validator with a price history about to overflow
SpecHistory == InitHistory /\ [][ValidatorNext]_vars

\* DriftDetector(baseline_window=w); a detector with a window of MinBaseline
\* starts with all but one of its baseline records, as the application
\* starts with half of its baseline
InitDrift ==
    /\ now = 0
    /\ alerts = <<>>
    /\ alert_counter = 0
    /\ ret = NoCall
    /\ created = <<>>
    /\ purged = {}
    /\ price_history = <<>>
    /\ max_price = Price(DefaultMaxPrice, 0)
    /\ vres = NoCall
    /\ calls = 0
    /\ appended = <<>>
    /\ \E w \in Windows :
          drift_detector = IF w >= MinBaseline THEN BaselineOf(w, w - 1)
                           ELSE DriftDetector(w)
    /\ recent_added = [price |-> <<>>, stock |-> <<>>]
    /\ kalman_filter = ConversionKalmanFilter(Frac(1, 100), Frac(5, 100), Frac(5, 100), Frac(1, 1))
    /\ anomaly_detector = AnomalyDetector
    /\ eres = NoCall
    /\ ecalls = 0
    /\ metrics = MetricsCollector
    /\ violations_file = <<>>
    /\ inflight = <<>>
    /\ responses = <<>>

\* the drift detector on its own
SpecDrift == InitDrift /\ [][DriftNext]_vars

\* ConversionKalmanFilter(...) with each of the configurations
InitKalman ==
    /\ now = 0
    /\ alerts = <<>>
    /\ alert_counter = 0
    /\ ret = NoCall
    /\ created = <<>>
    /\ purged = {}
    /\ price_history = <<>>
    /\ max_price = Price(DefaultMaxPrice, 0)
    /\ vres = NoCall
    /\ calls = 0
    /\ appended = <<>>
    /\ drift_detector = DriftDetector(DefaultBaselineWindow)
    /\ recent_added = [price |-> <<>>, stock |-> <<>>]
    /\ kalman_filter \in KalmanConfigs
    /\ anomaly_detector = AnomalyDetector
    /\ eres = NoCall
    /\ ecalls = 0
    /\ metrics = MetricsCollector
    /\ violations_file = <<>>
    /\ inflight = <<>>
    /\ responses = <<>>

\* the Kalman filter on its own
SpecKalman == InitKalman /\ [][KalmanNext]_vars

\* the application, scaled down to a baseline window of MinBaseline.  After
\* the startup hook the anomaly detector is trained on the startup batch and
\* the drift baseline is filled short of its window; where the hook has not
\* run the anomaly detector is not trained and the baseline is empty.
InitIngest ==
    /\ now = 0
    /\ alerts = <<>>
    /\ alert_counter = 0
    /\ ret = NoCall
    /\ created = <<>>
    /\ purged = {}
    /\ price_history = <<>>
    /\ max_price = Price(DefaultMaxPrice, 0)
    /\ vres = NoCall
    /\ calls = 0
    /\ appended = <<>>
    /\ \E started \in BOOLEAN :
          /\ drift_detector = IF started THEN BaselineOf(MinBaseline, MinBaseline - 1)
                              ELSE DriftDetector(MinBaseline)
          /\ anomaly_detector = IF started THEN train(AnomalyDetector, TrainingBatch)
                                ELSE AnomalyDetector
    /\ recent_added = [price |-> <<>>, stock |-> <<>>]
    /\ kalman_filter = ConversionKalmanFilter(Frac(1, 100), Frac(5, 100), Frac(5, 100), Frac(1, 1))
    /\ eres = NoCall
    /\ ecalls = 0
    /\ metrics = MetricsCollector
    /\ violations_file = <<>>
    /\ inflight = <<>>
    /\ responses = <<>>

\* the application after the startup hook and ServedIngests ingests of the
\* base request: the baseline is complete and the recent windows are one
\* value short of MinRecent.  The clock has reached MaxTime, so that the
\* alerts of one ingest are created within one tick.
InitServed ==
    /\ now = MaxTime
    /\ alerts = <<>>
    /\ alert_counter = 0
    /\ ret = NoCall
    /\ created = <<>>
    /\ purged = {}
    /\ price_history = ValidatedTimes(<<>>, ServedIngests)
    /\ max_price = Price(DefaultMaxPrice, 0)
    /\ vres = NoCall
    /\ calls = 0
    /\ appended = ValidatedTimes(<<>>, ServedIngests)
    /\ drift_detector = FedTimes(BaselineOf(MinBaseline, MinBaseline - 1), ServedIngests)
    /\ recent_added = FedTimes(BaselineOf(MinBaseline, MinBaseline - 1), ServedIngests).recent_data
    /\ kalman_filter = DeviationTimes(ConversionKalmanFilter(Frac(1, 100), Frac(5, 100), Frac(5, 100), Frac(1, 1)), ServedIngests)
    /\ anomaly_detector = PredictedTimes(train(AnomalyDetector, TrainingBatch), ServedIngests)
    /\ eres = NoCall
    /\ ecalls = 0
    /\ metrics = CountedTimes(MetricsCollector, ServedIngests)
    /\ violations_file = <<>>
    /\ inflight = <<>>
    /\ responses = <<>>

\* AnomalyDetector(), untrained or trained on the startup batch
InitAnomaly ==
    /\ now = 0
    /\ alerts = <<>>
    /\ alert_counter = 0
    /\ ret = NoCall
    /\ created = <<>>
    /\ purged = {}
    /\ price_history = <<>>
    /\ max_price = Price(DefaultMaxPrice, 0)
    /\ vres = NoCall
    /\ calls = 0
    /\ appended = <<>>
    /\ drift_detector = DriftDetector(DefaultBaselineWindow)
    /\ recent_added = [price |-> <<>>, stock |-> <<>>]
    /\ kalman_filter = ConversionKalmanFilter(Frac(1, 100), Frac(5, 100), Frac(5, 100), Frac(1, 1))
    /\ anomaly_detector \in {AnomalyDetector, train(AnomalyDetector, TrainingBatch)}
    /\ eres = NoCall
    /\ ecalls = 0
    /\ metrics = MetricsCollector
    /\ violations_file = <<>>
    /\ inflight = <<>>
    /\ responses = <<>>

\* the anomaly detector on its own
SpecAnomaly == InitAnomaly /\ [][AnomalyNext]_vars

\* the anomaly detector with its training
SpecTrain == InitAnomaly /\ [][TrainNext]_vars

\* the alert listing endpoint over the alert manager
SpecListing == InitAlerts /\ [][ListingNext]_vars

\* the ingest endpoint with every component behind it
SpecIngest == InitIngest /\ [][IngestNext]_vars

\* the ingest endpoint under concurrent requests
SpecConcurrent == InitIngest /\ [][ConcurrentNext]_vars

\* the ingest endpoint of an application that has been serving
SpecServed == InitServed /\ [][IngestNext]_vars

\* a detector whose baseline is still filling, after any number of records
\* of SKU-001 up to MaxHistory
InitConversion ==
    /\ now = 0
    /\ alerts = <<>>
    /\ alert_counter = 0
    /\ ret = NoCall
    /\ created = <<>>
    /\ purged = {}
    /\ price_history = <<>>
    /\ max_price = Price(DefaultMaxPrice, 0)
    /\ vres = NoCall
    /\ calls = 0
    /\ appended = <<>>
    /\ \E n \in 0..MaxHistory :
          drift_detector = BaselineOf(DefaultBaselineWindow, n)
    /\ recent_added = [price |-> <<>>, stock |-> <<>>]
    /\ kalman_filter = ConversionKalmanFilter(Frac(1, 100), Frac(5, 100), Frac(5, 100), Frac(1, 1))
    /\ anomaly_detector = AnomalyDetector
    /\ eres = NoCall
    /\ ecalls = 0
    /\ metrics = MetricsCollector
    /\ violations_file = <<>>
    /\ inflight = <<>>
    /\ responses = <<>>

\* detect_conversion_drift on its own
SpecConversion == InitConversion /\ [][ConversionNext]_vars

\* AlertManager() before any alert
InitDriftAlert ==
    /\ now = 0
    /\ alerts = <<>>
    /\ alert_counter = 0
    /\ ret = NoCall
    /\ created = <<>>
    /\ purged = {}
    /\ price_history = <<>>
    /\ max_price = Price(DefaultMaxPrice, 0)
    /\ vres = NoCall
    /\ calls = 0
    /\ appended = <<>>
    /\ drift_detector = DriftDetector(DefaultBaselineWindow)
    /\ recent_added = [price |-> <<>>, stock |-> <<>>]
    /\ kalman_filter = ConversionKalmanFilter(Frac(1, 100), Frac(5, 100), Frac(5, 100), Frac(1, 1))
    /\ anomaly_detector = AnomalyDetector
    /\ eres = NoCall
    /\ ecalls = 0
    /\ metrics = MetricsCollector
    /\ violations_file = <<>>
    /\ inflight = <<>>
    /\ responses = <<>>

\* the create_*_alert methods of the detectors on their own
SpecDriftAlert == InitDriftAlert /\ [][DriftAlertNext]_vars

-----------------------------------------------------------------------------
(* Properties of the alert manager *)

\* int(str) of a string of digits
RECURSIVE ParseInt(_)
ParseInt(d) == IF d = <<>> THEN 0 ELSE 10 * ParseInt(SubSeq(d, 1, Len(d) - 1)) + d[Len(d)]

IdsOf(als) == {als[i].alert_id : i \in DOMAIN als}

RECURSIVE SumOver(_, _)
SumOver(f, keys) ==
    IF keys = {} THEN 0
    ELSE LET k == CHOOSE x \in keys : TRUE IN f[k] + SumOver(f, keys \ {k})

SumOf(f) == SumOver(f, DOMAIN f)

\* C1: the ids handed out are pairwise different, the number in a later id is
\* strictly larger than the number in every earlier id, and the counter always
\* equals the number in the last id handed out (it is never reset or decremented).
C1_IdsUniqueAndMonotone ==
    /\ \A i, j \in DOMAIN created :
          i < j => /\ created[i] # created[j]
                   /\ ParseInt(created[i].num) < ParseInt(created[j].num)
    /\ created # <<>> => alert_counter = ParseInt(created[Len(created)].num)
    /\ created = <<>> => alert_counter = 0

\* two alerts created on different days, the first of them already purged
C1_Witness ==
    /\ Len(created) >= 2
    /\ created[1].date # created[2].date
    /\ created[1] \in purged

\* C2: a listing returned at time now holds no alert older than alert_ttl and no
\* purged alert, stats.total counts only alerts that are not older than
\* alert_ttl, and a purged alert is never in the table again.
C2_NoExpiredAlertListed ==
    /\ ret.op = "get" =>
          \A k \in DOMAIN ret.result :
              /\ ret.result[k].age_seconds <= alert_ttl
              /\ ret.result[k].alert_id \notin purged
    /\ ret.op = "stats" =>
          ret.stats.total = Cardinality({i \in DOMAIN alerts : ret.now - alerts[i].timestamp <= alert_ttl})
    /\ \A id \in purged : id \notin IdsOf(alerts)

\* a listing that returns an alert after another one was purged
C2_Witness ==
    /\ ret.op = "get"
    /\ purged # {}
    /\ ret.result # <<>>

\* what the caller asked for, filter by filter; an empty string is a supplied value
AsksSeverity(a, f) == f.severity = None \/ a.severity = f.severity[1]
AsksType(a, f) == f.alert_type = None \/ a.alert_type = f.alert_type[1]
AsksSku(a, f) == f.sku = None \/ a.sku = f.sku
AsksResolved(a, f) == f.resolved = None \/ a.resolved = f.resolved[1]

\* the same, an empty string counting as no filter
AsksTypeNonEmpty(a, f) == f.alert_type \in {None, Some("")} \/ a.alert_type = f.alert_type[1]
AsksSkuNonEmpty(a, f) == f.sku \in {None, Some("")} \/ a.sku = f.sku

ListedIds == {ret.result[k].alert_id : k \in DOMAIN ret.result}

\* C3 as claimed: a resolved alert in the table is listed if and only if the
\* caller asked for resolved=true.
C3_ResolvedListedIffRequested ==
    ret.op = "get" =>
        \A i \in DOMAIN alerts :
            alerts[i].resolved =>
                (alerts[i].alert_id \in ListedIds <=> ret.args.resolved = Some(TRUE))

\* C3 amended: a resolved alert is never listed under resolved=false; under
\* resolved=true or with the filter omitted it is listed whenever it matches
\* the other filters and the limit does not cut the listing.
C3_ResolvedListedUnlessExcluded ==
    ret.op = "get" =>
        \A i \in DOMAIN alerts :
            alerts[i].resolved =>
                /\ ret.args.resolved = Some(FALSE) => alerts[i].alert_id \notin ListedIds
                /\ ( /\ ret.args.resolved \in {None, Some(TRUE)}
                     /\ AsksSeverity(alerts[i], ret.args)
                     /\ AsksTypeNonEmpty(alerts[i], ret.args)
                     /\ AsksSkuNonEmpty(alerts[i], ret.args)
                     /\ ret.args.limit >= Len(alerts) )
                    => alerts[i].alert_id \in ListedIds

\* a resolved alert listed by a call that omits the resolved filter
C3_Witness ==
    /\ ret.op = "get"
    /\ ret.args.resolved = None
    /\ \E k \in DOMAIN ret.result : ret.result[k].resolved

\* the listing is the first `limit` of the alerts of the table selected by
\* Wanted, newest first
ListingIs(Wanted(_, _)) ==
    LET f == ret.args
        res == ret.result
        want == {i \in DOMAIN alerts : Wanted(alerts[i], f)}
        at(k) == CHOOSE i \in DOMAIN alerts : alerts[i].alert_id = res[k].alert_id
    IN  /\ Len(res) = Min(f.limit, Cardinality(want))
        /\ \A k \in DOMAIN res :
              /\ \E i \in want : alerts[i].alert_id = res[k].alert_id
              /\ res[k] = to_dict(alerts[at(k)], ret.now)
        /\ \A k, l \in DOMAIN res :
              k < l => /\ res[k].alert_id # res[l].alert_id
                       /\ alerts[at(k)].timestamp >= alerts[at(l)].timestamp
        /\ \A i \in want :
              alerts[i].alert_id \notin ListedIds =>
                  \A k \in DOMAIN res : alerts[at(k)].timestamp >= alerts[i].timestamp

\* C4 as claimed: the listing is exactly the unexpired alerts that match every
\* supplied filter, newest first, cut to the limit.
C4_ListingMatchesEverySuppliedFilter ==
    ret.op = "get" =>
        ListingIs(LAMBDA a, f : AsksSeverity(a, f) /\ AsksType(a, f)
                                /\ AsksSku(a, f) /\ AsksResolved(a, f))

\* C4 amended: the same, where an alert_type or sku filter that is the empty
\* string counts as not supplied.
C4_ListingMatchesEveryNonEmptyFilter ==
    ret.op = "get" =>
        ListingIs(LAMBDA a, f : AsksSeverity(a, f) /\ AsksTypeNonEmpty(a, f)
                                /\ AsksSkuNonEmpty(a, f) /\ AsksResolved(a, f))

\* a listing cut to one alert, the newer of two with different timestamps
C4_Witness ==
    /\ ret.op = "get"
    /\ ret.args.limit = 1
    /\ Len(ret.result) = 1
    /\ Len(alerts) = 2
    /\ alerts[1].timestamp < alerts[2].timestamp
    /\ ret.result[1].alert_id = alerts[2].alert_id

\* C5: an acknowledge (resolve) of an alert that an earlier acknowledge
\* (resolve) has already marked returns true again, leaves the table and the
\* counter as they were, and the alert is still acknowledged (resolved).
C5_AckResolveIdempotent ==
    [][ ( \/ ret'.op = "acknowledge" /\ IsAcknowledged(alerts, ret'.alert_id)
          \/ ret'.op = "resolve" /\ IsResolved(alerts, ret'.alert_id) ) =>
            /\ ret'.success
            /\ alerts' = alerts
            /\ alert_counter' = alert_counter
            /\ ret'.op = "acknowledge" => IsAcknowledged(alerts', ret'.alert_id)
            /\ ret'.op = "resolve" => IsResolved(alerts', ret'.alert_id) ]_vars

\* a second acknowledge of the same alert has returned, the alert being
\* resolved as well
C5_Witness ==
    /\ ret.op = "acknowledge"
    /\ ret.already
    /\ ret.success
    /\ IsResolved(alerts, ret.alert_id)

\* C6: acknowledge / resolve return false exactly for an id that is not in
\* the table, then leave the table and the counter unchanged, and the endpoint
\* answers 404 in that case and 200 otherwise.
C6_UnknownIdRejected ==
    [][ ret'.op \in {"acknowledge", "resolve"} =>
            LET known == ret'.alert_id \in IdsOf(alerts)
            IN  /\ ret'.success <=> known
                /\ ~known => (alerts' = alerts /\ alert_counter' = alert_counter)
                /\ ret'.status = (IF known THEN 200 ELSE 404) ]_vars

\* an id that was purged is refused while another alert is in the table
C6_Witness ==
    /\ ret.op = "resolve"
    /\ ~ret.success
    /\ ret.status = 404
    /\ ret.alert_id \in purged
    /\ alerts # <<>>

\* C7: the stats returned at time now describe the alerts of the table that
\* are not older than alert_ttl: total is their number, the by_severity and
\* the by_type counts each sum to total, unresolved and unacknowledged count
\* those with the flag false.
C7_StatsConsistent ==
    [][ ret'.op = "stats" =>
            LET live == {i \in DOMAIN alerts : now - alerts[i].timestamp <= alert_ttl}
                st == ret'.stats
            IN  /\ st.total = Cardinality(live)
                /\ SumOf(st.by_severity) = st.total
                /\ SumOf(st.by_type) = st.total
                /\ \A s \in DOMAIN st.by_severity :
                      st.by_severity[s] = Cardinality({i \in live : alerts[i].severity = s})
                /\ \A y \in DOMAIN st.by_type :
                      st.by_type[y] = Cardinality({i \in live : alerts[i].alert_type = y})
                /\ st.unresolved = Cardinality({i \in live : ~alerts[i].resolved})
                /\ st.unacknowledged = Cardinality({i \in live : ~alerts[i].acknowledged}) ]_vars

\* stats over a table from which an alert was purged and whose remaining alert
\* is resolved but not acknowledged
C7_Witness ==
    /\ ret.op = "stats"
    /\ purged # {}
    /\ ret.stats.total = 1
    /\ ret.stats.unresolved = 0
    /\ ret.stats.unacknowledged = 1

-----------------------------------------------------------------------------
(* Properties of the contract validator *)

\* the parts of a submitted record, as the caller wrote them
HasSku(r) == r.sku # None /\ r.sku[1] # ""
HasTimestamp(r) == r.timestamp # None
HasSubmittedPrice(r) == r.price # None /\ r.price[1].kind = "num" /\ r.price[1].val > 0
HasFunnel(r) ==
    /\ r.views # None /\ r.add_to_cart # None /\ r.purchases # None
    /\ 0 <= r.purchases[1]
    /\ r.purchases[1] <= r.add_to_cart[1]
    /\ r.add_to_cart[1] <= r.views[1]
HasStock(r) == r.stock # None /\ r.stock[1] >= 0

ViolationsOf(violation_type) ==
    SelectSeq(vres.violations, LAMBDA v : v.violation_type = violation_type)

\* C8 as claimed: when a valid record of a SKU is followed by a record that
\* differs from it only in a submitted price more than price_jump_threshold
\* times higher (19.99 then 1999.99), the second record gets exactly one
\* price_jump violation, of severity critical.
C8_PriceJumpOnSubmittedPrice ==
    [][ ( /\ calls' = calls + 1
          /\ vres.op = "validate"
          /\ vres.is_valid
          /\ HasSubmittedPrice(vres.record)
          /\ HasSubmittedPrice(vres'.record)
          /\ vres'.record = [vres.record EXCEPT !.price = vres'.record.price]
          /\ (vres'.record.price[1].val - 1) \div price_jump_threshold
                >= vres.record.price[1].val )
        => LET jumps == SelectSeq(vres'.violations,
                                  LAMBDA v : v.violation_type = "price_jump")
           IN  /\ Len(jumps) = 1
               /\ jumps[1].severity = "critical" ]_vars

\* C9 as claimed: a record whose submitted price exceeds max_price is invalid
\* and carries a unit_error violation of severity critical.
C9_UnitErrorOnSubmittedPrice ==
    ( /\ vres.op = "validate"
      /\ HasSku(vres.record) /\ HasTimestamp(vres.record)
      /\ HasStock(vres.record) /\ HasFunnel(vres.record)
      /\ HasSubmittedPrice(vres.record)
      /\ vres.record.price[1].val > max_price )
    => /\ ~vres.is_valid
       /\ \E k \in DOMAIN vres.violations :
             /\ vres.violations[k].violation_type = "unit_error"
             /\ vres.violations[k].severity = "critical"

\* C10 as claimed: a record with stock < 0 that is otherwise well-formed gets
\* a negative_stock violation of severity high.
C10_NegativeStockReported ==
    ( /\ vres.op = "validate"
      /\ HasSku(vres.record) /\ HasTimestamp(vres.record)
      /\ HasSubmittedPrice(vres.record) /\ HasFunnel(vres.record)
      /\ vres.record.stock # None
      /\ vres.record.stock[1] < 0 )
    => \E k \in DOMAIN vres.violations :
          /\ vres.violations[k].violation_type = "negative_stock"
          /\ vres.violations[k].severity = "high"

\* a price any float can be made of: a number or a numeric string
HasPrice(r) == r.price # None /\ r.price[1].kind \in {"num", "str"} /\ r.price[1].val > 0

\* the record passes the shape check and the funnel invariants
SchemaValid(r) ==
    HasSku(r) /\ HasTimestamp(r) /\ HasPrice(r) /\ HasStock(r) /\ HasFunnel(r)

\* a required field is missing or has a value of the wrong type
ShapeFault(r) ==
    \/ r.timestamp = None \/ r.sku = None \/ r.stock = None
    \/ r.views = None \/ r.add_to_cart = None \/ r.purchases = None
    \/ r.price = None \/ r.price[1].kind = "bad"

\* add_to_cart > views or purchases > add_to_cart
FunnelFault(r) ==
    /\ r.views # None /\ r.add_to_cart # None /\ r.purchases # None
    /\ (r.add_to_cart[1] > r.views[1] \/ r.purchases[1] > r.add_to_cart[1])

\* the last k elements of s, all of s when it has fewer
LastOf(s, k) == SubSeq(s, Len(s) - Min(k, Len(s)) + 1, Len(s))

\* C11: whenever validate_record returns is_valid = true, the normalized
\* record has 0 < price <= max_price, stock >= 0, add_to_cart <= views and
\* purchases <= add_to_cart.
C11_AcceptedRecordInBounds ==
    (vres.op = "validate" /\ vres.is_valid) =>
        /\ vres.normalized_data # None
        /\ LET n == vres.normalized_data[1]
           IN  /\ 0 < n.price
               /\ n.price <= max_price
               /\ n.stock >= 0
               /\ n.add_to_cart <= n.views
               /\ n.purchases <= n.add_to_cart

\* a record submitted with a price in cents above max_price is accepted with
\* its price divided by 100, after another record of the same SKU
C11_Witness ==
    /\ vres.op = "validate"
    /\ vres.is_valid
    /\ vres.record.price[1].kind = "num"
    /\ vres.record.price[1].val > max_price
    /\ vres.normalized_data[1].price * 100 = vres.record.price[1].val
    /\ Len(price_history[vres.normalized_data[1].sku]) >= 2

\* C12: the retained price history of every SKU has at most 100 entries, the
\* prices most recently appended for that SKU, in arrival order.
C12_HistoryIsLastHundred ==
    /\ DOMAIN price_history = DOMAIN appended
    /\ \A s \in DOMAIN price_history :
          /\ Len(price_history[s]) <= 100
          /\ price_history[s] = LastOf(appended[s], 100)

\* more than 100 prices were appended for one SKU, the oldest two evicted,
\* while another SKU has a short history
C12_Witness ==
    /\ "SKU-001" \in DOMAIN appended
    /\ Len(appended["SKU-001"]) = 102
    /\ "SKU-002" \in DOMAIN price_history
    /\ Len(price_history["SKU-002"]) = 1

\* C13: a record with a shape fault or a funnel fault gets is_valid = false
\* and exactly one violation, schema_error of severity high, and the call
\* leaves the price history as it was.
C13_SchemaErrorStopsValidation ==
    [][ ( /\ calls' = calls + 1
          /\ (ShapeFault(vres'.record) \/ FunnelFault(vres'.record)) )
        => /\ ~vres'.is_valid
           /\ Len(vres'.violations) = 1
           /\ vres'.violations[1].violation_type = "schema_error"
           /\ vres'.violations[1].severity = "high"
           /\ price_history' = price_history ]_vars

\* a record with a funnel fault and no shape fault was validated for a SKU
\* that has a price history
C13_Witness ==
    /\ vres.op = "validate"
    /\ FunnelFault(vres.record)
    /\ ~ShapeFault(vres.record)
    /\ Len(vres.violations) = 1
    /\ vres.record.sku[1] \in DOMAIN price_history
    /\ calls >= 2

Hours(h) == h * 3600

\* C15: for a schema-valid record of age delta = now - timestamp: delta > 24 h
\* gives exactly one invalid_timestamp violation, of severity medium; so does
\* delta < -1 h; -1 h <= delta <= 24 h gives none.
C15_FreshnessWindow ==
    (vres.op = "validate" /\ SchemaValid(vres.record)) =>
        LET delta == vres.record.timestamp[1]
            ts == ViolationsOf("invalid_timestamp")
        IN  IF delta > Hours(24) \/ delta < 0 - Hours(1)
            THEN Len(ts) = 1 /\ ts[1].severity = "medium"
            ELSE ts = <<>>

\* a record one second more than an hour in the future was flagged once
C15_Witness ==
    /\ vres.op = "validate"
    /\ SchemaValid(vres.record)
    /\ vres.record.timestamp[1] = 0 - Hours(1) - 1
    /\ Len(ViolationsOf("invalid_timestamp")) = 1

-----------------------------------------------------------------------------
(* Properties of the drift detector *)

BaselineFull(d) == Len(d.baseline_data.price) >= d.baseline_window

\* C16: baseline_ready is true exactly when the baseline prices have reached
\* baseline_window; it never becomes false again; once it is true no call
\* changes the baseline or the conversion histories, add_to_baseline changes
\* nothing at all, and a record fed by an ingest goes to the recent window.
C16_BaselineFreezesWhenReady ==
    [][ /\ drift_detector.baseline_ready <=> BaselineFull(drift_detector)
        /\ drift_detector'.baseline_ready <=> BaselineFull(drift_detector')
        /\ drift_detector.baseline_ready =>
              /\ drift_detector'.baseline_ready
              /\ drift_detector'.baseline_data = drift_detector.baseline_data
              /\ drift_detector'.sku_conversion_history
                    = drift_detector.sku_conversion_history
              /\ (ecalls' = ecalls + 1 /\ eres'.op = "add_to_baseline")
                    => drift_detector' = drift_detector
              /\ (ecalls' = ecalls + 1 /\ eres'.op = "detect_all_drift")
                    => LET r == eres'.record
                           price == drift_detector'.recent_data.price
                           stock == drift_detector'.recent_data.stock
                       IN  /\ r.price # None =>
                                 price # <<>> /\ price[Len(price)] = r.price[1]
                           /\ r.stock # None =>
                                 stock # <<>> /\ stock[Len(stock)] = r.stock[1] ]_vars

\* add_to_baseline was called with a priced record on a detector whose
\* baseline of two or more prices was already complete, and the price is not
\* in the baseline; an ingest has fed the recent window
C16_Witness ==
    /\ eres.op = "add_to_baseline"
    /\ drift_detector.baseline_ready
    /\ drift_detector.baseline_window >= 2
    /\ Len(drift_detector.baseline_data.price) = drift_detector.baseline_window
    /\ eres.record.price # None
    /\ eres.record.price[1] \notin Range(drift_detector.baseline_data.price)
    /\ drift_detector.recent_data.price # <<>>

\* C17 as claimed: for every baseline_window >= 1 the recent price window and
\* the recent stock window each hold at most baseline_window // 2 values, the
\* ones most recently added, in arrival order.
C17_RecentWindowCapped ==
    LET max_recent == drift_detector.baseline_window \div 2
    IN  drift_detector.baseline_window >= 1 =>
            /\ Len(drift_detector.recent_data.price) <= max_recent
            /\ Len(drift_detector.recent_data.stock) <= max_recent
            /\ drift_detector.recent_data.price = LastOf(recent_added.price, max_recent)
            /\ drift_detector.recent_data.stock = LastOf(recent_added.stock, max_recent)

\* the metric lists a detect call looks at
MetricOf(op) == IF op = "detect_price_drift" THEN "price" ELSE "stock"

-----------------------------------------------------------------------------
(* Properties of the Kalman filter *)

-----------------------------------------------------------------------------
(* Properties of the ingest endpoint *)

\* the ingest that has just answered reported a schema_error
ReportedSchemaError(res) ==
    /\ res.op = "ingest"
    /\ res.status = 200
    /\ \E i \in DOMAIN res.violations : res.violations[i].violation_type = "schema_error"

\* C20: a record with an input fault, reported as schema_error, is dropped
\* before the detector updates: ingesting it changes neither the baseline and
\* recent windows of the drift detector, nor the history of the anomaly
\* detector, nor the Kalman state of its SKU.
C20_FaultyRecordNotFedToDetectors ==
    [][(ecalls' = ecalls + 1 /\ ReportedSchemaError(eres')) =>
          /\ drift_detector'.baseline_data = drift_detector.baseline_data
          /\ drift_detector'.recent_data = drift_detector.recent_data
          /\ anomaly_detector' = anomaly_detector
          /\ StateOf(kalman_filter', eres'.request.sku)
                = StateOf(kalman_filter, eres'.request.sku)]_vars

\* the number a labelled counter holds for a label
CountOf(counter, key) == IF key \in DOMAIN counter THEN counter[key] ELSE 0

\* the step is an ingest that ended by the except branch of the handler
IngestRaised == ecalls' = ecalls + 1 /\ eres'.op = "ingest" /\ eres'.status = 500

\* C21: if an engine raises while a record is ingested, the request ends in a
\* 5xx response with the processing-error counter incremented, and the alert
\* table holds no alert created for that record, whichever alerts had been
\* produced before the engine failed.
C21_RaisedIngestLeavesNoAlert ==
    [][IngestRaised =>
          /\ CountOf(metrics'.processing_errors, "exception")
                = CountOf(metrics.processing_errors, "exception") + 1
          /\ alerts' = alerts
          /\ eres'.alert_ids = <<>>]_vars

\* the alerts of the table that the last ingest created
AlertsOfLastIngest ==
    {a \in Range(alerts) : eres.op = "ingest" /\ a.alert_id \in Range(eres.alert_ids)}

\* C22: all the alerts created while one record is ingested (contract
\* violation, drift, anomaly, conversion deviation) carry the same timestamp.
C22_AlertsOfOneIngestShareTimestamp ==
    \A a, b \in AlertsOfLastIngest : a.timestamp = b.timestamp

\* the last element of a non-empty list
LastElem(s) == s[Len(s)]

\* the step is an ingest, answered 200, of a record that passes the schema
IngestOfSchemaValid ==
    /\ ecalls' = ecalls + 1
    /\ eres'.op = "ingest"
    /\ eres'.status = 200
    /\ FieldErrors(model_dump(eres'.request)) = {}

\* C23: the price every downstream engine sees for an ingested record is the
\* normalized price: the value appended to the drift windows and the value
\* the anomaly detector keeps in its history equal the value the validator
\* stored in its price history for that record.
C23_EnginesSeeNormalizedPrice ==
    [][IngestOfSchemaValid =>
          LET sku == eres'.request.sku
              stored == LastElem(price_history'[sku])
              window == IF drift_detector.baseline_ready
                        THEN drift_detector'.recent_data.price
                        ELSE drift_detector'.baseline_data.price
          IN  /\ LastElem(window) = stored
              /\ anomaly_detector'.is_trained =>
                    /\ anomaly_detector'.last_price[sku] = stored
                    /\ LastElem(anomaly_detector'.price_history[sku]) = stored]_vars

\* The engines after the handlers of a log of responses have run one after
\* the other, in the order of the log, from the engines d, an, k and the
\* price history ph
RECURSIVE HistoryOfLog(_, _)
HistoryOfLog(log, ph) ==
    IF log = <<>> THEN ph
    ELSE HistoryOfLog(Tail(log), HistoryAfter(ph, model_dump(Head(log).request)))

RECURSIVE DriftOfLog(_, _)
DriftOfLog(log, d) ==
    IF log = <<>> THEN d
    ELSE DriftOfLog(Tail(log), FeedRecord(d, DriftView(Head(log).request)))

RECURSIVE AnomalyOfLog(_, _)
AnomalyOfLog(log, an) ==
    IF log = <<>> THEN an
    ELSE AnomalyOfLog(Tail(log),
            IF an.is_trained /\ Head(log).status = 200
            THEN update_history(an, Head(log).request) ELSE an)

RECURSIVE KalmanOfLog(_, _)
KalmanOfLog(log, k) ==
    IF log = <<>> THEN k
    ELSE KalmanOfLog(Tail(log),
            IF Head(log).status = 200 THEN DeviationStep(k, Head(log).request).filter
            ELSE k)

-----------------------------------------------------------------------------
(* Properties of the anomaly detector *)

\* the step is a predict call on a trained detector that returned
PredictReturned ==
    /\ ecalls' = ecalls + 1
    /\ eres'.op = "predict"
    /\ ~eres'.raised
    /\ anomaly_detector.is_trained

\* the price-delta and stock-change features of a record after a record of
\* the same SKU with price p and stock q
FeaturesAfter(record, p, q) ==
    [price_delta_pct |-> IF p > 0 THEN (Abs(record.price - p) * 100) \div p ELSE 0,
     stock_change |-> Abs(record.stock - q)]

IngestAnswered == ecalls' = ecalls + 1 /\ eres'.op = "ingest" /\ eres'.status = 200

\* the alerts of a list that are of a type
OfType(als, alert_type) ==
    LET Test(a) == a.alert_type = alert_type IN SelectSeq(als, Test)

\* C26: for every successfully processed ingest, alerts_created in the
\* response is the number of alerts the ingest added to the alert table, among
\* them exactly one contract_violation alert per reported violation, with the
\* severity and the SKU of the violation; success is false if and only if the
\* list of violations is not empty.
C26_ResponseCountsAlerts ==
    [][IngestAnswered =>
          LET added == SubSeq(alerts', Len(alerts) + 1, Len(alerts'))
              cv == OfType(added, "contract_violation")
          IN  /\ Len(alerts') >= Len(alerts)
              /\ SubSeq(alerts', 1, Len(alerts)) = alerts
              /\ eres'.alerts_created = Len(added)
              /\ Len(cv) = Len(eres'.violations)
              /\ \A i \in DOMAIN cv :
                    /\ cv[i].severity = eres'.violations[i].severity
                    /\ cv[i].sku = eres'.violations[i].sku
              /\ (~eres'.success) <=> (eres'.violations # <<>>)]_vars

\* an ingest reported two violations of different severities and created, with
\* their two alerts, a drift alert and an anomaly alert
C26_Witness ==
    /\ eres.op = "ingest"
    /\ eres.status = 200
    /\ Len(eres.violations) = 2
    /\ eres.violations[1].severity # eres.violations[2].severity
    /\ eres.alerts_created = 4
    /\ Len(OfType(alerts, "contract_violation")) = 2
    /\ Len(OfType(alerts, "drift")) = 1
    /\ Len(OfType(alerts, "anomaly")) = 1

-----------------------------------------------------------------------------
(* Properties of the conversion drift check *)

\* detect_conversion_drift was called on a history long enough to compare
ConversionCompared ==
    /\ eres # NoCall
    /\ eres.op = "detect_conversion_drift"
    /\ eres.history >= MinConversions

\* C27: for every conversion history of at least 10 rates, the baseline
\* slice and the recent slice of detect_conversion_drift split the history
\* they consider into an older and a newer part: the baseline slice ends
\* before the recent slice starts, the recent slice starts right after it,
\* and the recent slice ends at the newest rate.
C27_ConversionSlicesPartition ==
    ConversionCompared =>
        /\ eres.baseline.last < eres.recent.first
        /\ eres.baseline.last + 1 = eres.recent.first
        /\ eres.recent.last = eres.history


\* detect_deviation answered for an observation with views
DeviationAnswered ==
    /\ eres # NoCall
    /\ eres.op = "detect_deviation"
    /\ eres.views > 0

\* C28: the standard deviation of the z-score is at least 0.1, so an
\* observation at most 0.1 * threshold_sigma away from the estimate is
\* never reported as a deviation, whatever the stored uncertainty is.
C28_CloseObservationNotFlagged ==
    (/\ DeviationAnswered
     /\ eres.result.uncertainty >= 0
     /\ Abs(eres.result.observed_conversion - eres.result.expected_conversion)
            <= threshold_sigma * SigmaFloor)
        => ~eres.result.deviation_detected


-----------------------------------------------------------------------------
(* Properties of the drift alerts *)

\* the severity the thresholds on PSI and KS p-value give
GradedSeverity(psi, ks_pvalue) ==
    IF psi * 10 > 5 * StatScale \/ ks_pvalue * 100 < StatScale THEN "critical"
    ELSE IF psi * 10 > 3 * StatScale \/ ks_pvalue * 100 < 5 * StatScale THEN "high"
         ELSE "medium"

\* C29: a call of create_drift_alert with a result that reports drift
\* stores one new alert of type drift whose severity is critical when
\* psi > 0.5 or ks_pvalue < 0.01, else high when psi > 0.3 or
\* ks_pvalue < 0.05, else medium; with a result that reports no drift it
\* stores nothing and returns no alert.
C29_DriftAlertSeverityGraded ==
    [][(ret = NoCall /\ ret' # NoCall /\ ret'.op = "create_drift_alert") =>
          LET dr == ret'.drift_result
          IN  IF Get(dr, "drift_detected", FALSE)
              THEN /\ Len(ret'.alert_ids) = 1
                   /\ Len(alerts') = Len(alerts) + 1
                   /\ \E i \in DOMAIN alerts' :
                         /\ alerts'[i].alert_id = ret'.alert_ids[1]
                         /\ alerts'[i].alert_type = "drift"
                         /\ alerts'[i].severity = GradedSeverity(dr.psi, dr.ks_pvalue)
                   /\ \A i \in DOMAIN alerts : alerts[i].alert_id # ret'.alert_ids[1]
              ELSE /\ ret'.alert_ids = <<>>
                   /\ alerts' = alerts
                   /\ alert_counter' = alert_counter]_vars

\* a drift alert graded critical by its p-value alone, after one graded
\* medium
C29_Witness ==
    /\ ret # NoCall
    /\ ret.op = "create_drift_alert"
    /\ Get(ret.drift_result, "drift_detected", FALSE)
    /\ ret.drift_result.psi * 10 <= 3 * StatScale
    /\ ret.drift_result.ks_pvalue * 100 < StatScale
    /\ \E i, j \in DOMAIN alerts :
          /\ alerts[i].alert_id = ret.alert_ids[1]
          /\ alerts[i].severity = "critical"
          /\ alerts[j].alert_type = "drift"
          /\ alerts[j].severity = "medium"


-----------------------------------------------------------------------------
(* Properties of the price-jump check *)

\* the severities of the price_jump violations of a validation result
JumpsOf(res) ==
    LET jumps == SelectSeq(res.violations, LAMBDA v : v.violation_type = "price_jump")
    IN  [i \in DOMAIN jumps |-> jumps[i].severity]

-----------------------------------------------------------------------------
(* Properties of the baseline reservoirs *)

\* the number of rates in all conversion histories together
ConversionsHeld(d) ==
    SumOver([s \in DOMAIN d.sku_conversion_history |-> Len(d.sku_conversion_history[s])],
            DOMAIN d.sku_conversion_history)

\* C31: after any sequence of add_to_baseline calls, with records that may
\* lack a price or a stock, the baseline price list and the baseline stock
\* list each hold at most baseline_window values and the conversion
\* histories of all SKUs together hold at most baseline_window values.
C31_BaselineReservoirsCapped ==
    /\ Len(drift_detector.baseline_data.price) <= drift_detector.baseline_window
    /\ Len(drift_detector.baseline_data.stock) <= drift_detector.baseline_window
    /\ ConversionsHeld(drift_detector) <= drift_detector.baseline_window


-----------------------------------------------------------------------------
(* Properties of the training of the anomaly detector *)

\* the position of the last record before position i with the SKU of the
\* i-th record, 0 when there is none
PreviousOfSku(records, i) ==
    LET earlier == {j \in 1..(i - 1) : records[j].sku = records[i].sku}
    IN  IF earlier = {} THEN 0 ELSE CHOOSE j \in earlier : \A k \in earlier : k <= j

\* the values of a field of the records of one SKU, in the order of the batch
FieldOfSku(records, sku, field) ==
    LET own == SelectSeq(records, LAMBDA r : r.sku = sku)
    IN  [i \in DOMAIN own |-> own[i][field]]

\* C32: train of a new detector gives every training record the
\* price_delta_pct |p - p_prev| / p_prev against the price of the previous
\* training record of its SKU (0 when it is the first of its SKU), and
\* leaves the detector trained with every training record once in its
\* histories.
C32_TrainingFeaturesFromPredecessors ==
    [][(/\ anomaly_detector = AnomalyDetector
        /\ eres' # NoCall
        /\ eres'.op = "train"
        /\ ~eres'.raised) =>
          LET records == eres'.records
          IN  /\ \A i \in DOMAIN records :
                    LET j == PreviousOfSku(records, i)
                    IN  eres'.features[i].price_delta_pct =
                            IF j = 0 THEN 0
                            ELSE (Abs(records[i].price - records[j].price) * 100)
                                     \div records[j].price
              /\ anomaly_detector'.is_trained
              /\ \A sku \in {records[i].sku : i \in DOMAIN records} :
                    /\ ListOf(anomaly_detector'.price_history, sku)
                          = FieldOfSku(records, sku, "price")
                    /\ ListOf(anomaly_detector'.stock_history, sku)
                          = FieldOfSku(records, sku, "stock")]_vars


\* C33: when an accepted record of a SKU is followed by a record of the
\* same SKU that violates the contract, the last_good_state of every
\* contract-violation alert of the second record holds the price and the
\* stock of the accepted record, not those of the violating record.
C33_LastGoodStateIsPriorRecord ==
    [][(/\ eres # NoCall
        /\ eres.op = "ingest"
        /\ eres.status = 200
        /\ eres.success
        /\ ecalls' = ecalls + 1
        /\ eres'.op = "ingest"
        /\ eres'.request.sku = eres.request.sku) =>
          LET added == SubSeq(alerts', Len(alerts) + 1, Len(alerts'))
              cv == OfType(added, "contract_violation")
          IN  \A i \in DOMAIN cv :
                 /\ cv[i].last_good_state.price = eres.request.price
                 /\ cv[i].last_good_state.stock = eres.request.stock]_vars


-----------------------------------------------------------------------------
(* Properties of the eviction of alerts *)

\* the alerts of a table under the given ids
AlertsWithId(als, ids) == {als[i] : i \in {j \in DOMAIN als : als[j].alert_id \in ids}}

\* C34: an alert leaves the table only in a get_alerts or get_alert_stats
\* call and only when its age exceeds alert_ttl; create, acknowledge and
\* resolve remove nothing, and acknowledge or resolve of an alert that is
\* past its TTL and still in the table returns true and sets its flag.
C34_EvictionOnlyOnRead ==
    [][LET removed == IdsOf(alerts) \ IdsOf(alerts')
       IN  /\ removed # {} =>
                /\ ret' # NoCall
                /\ ret'.op \in {"get", "stats"}
                /\ \A a \in AlertsWithId(alerts, removed) : Expired(a, now)
           /\ (ret = NoCall /\ ret' # NoCall /\ ret'.op \in {"acknowledge", "resolve"}
                 /\ \E a \in AlertsWithId(alerts, {ret'.alert_id}) : Expired(a, now)) =>
                /\ ret'.success
                /\ ret'.op = "acknowledge" => IsAcknowledged(alerts', ret'.alert_id)
                /\ ret'.op = "resolve" => IsResolved(alerts', ret'.alert_id)]_vars

\* an alert past its TTL that no read has purged was resolved
C34_Witness ==
    /\ ret # NoCall
    /\ ret.op = "resolve"
    /\ ret.success
    /\ ~ret.already
    /\ \E a \in AlertsWithId(alerts, {ret.alert_id}) : Expired(a, now) /\ a.resolved


-----------------------------------------------------------------------------
(* Properties of the metrics of the ingest endpoint *)

\* the alerts an ingest step added to the table
AddedAlerts == SubSeq(alerts', Len(alerts) + 1, Len(alerts'))

\* how much a labelled counter of the metrics grew in the step
Growth(counter, key) == CountOf(metrics'[counter], key) - CountOf(metrics[counter], key)

\* C35: for every alert an ingest creates, the severity label counted in
\* the metrics is the severity stored on the alert: alerts_total grows, per
\* severity and type, by the number of alerts stored with that severity and
\* type, and drift_detections_total and anomaly_detections_total grow by the
\* drift and anomaly alerts of each severity, also when the severity of a
\* drift alert comes from the KS p-value.
C35_MetricSeverityIsAlertSeverity ==
    [][(ecalls' = ecalls + 1 /\ eres'.op = "ingest") =>
          \A severity \in Severities :
             LET Stored(a) == a.severity = severity
                 stored == SelectSeq(AddedAlerts, Stored)
             IN  /\ \A alert_type \in AlertTypes :
                       Growth("alert_count", <<severity, alert_type>>)
                           = Len(OfType(stored, alert_type))
                 /\ Growth("anomaly_detections", severity) = Len(OfType(stored, "anomaly"))
                 /\ \A metric_type \in {"price", "stock"} :
                       LET OfMetric(a) == a.metadata.metric_type = metric_type
                       IN  Growth("drift_detections", <<metric_type, severity>>)
                               = Len(SelectSeq(OfType(stored, "drift"), OfMetric))]_vars


-----------------------------------------------------------------------------
(* Properties of the alert factories of the detectors *)

\* the step is a call of one of the three factories, with the result it was
\* given and the key of the flag it tests
FactoryCalled ==
    /\ ret = NoCall
    /\ ret' # NoCall
    /\ ret'.op \in {"create_drift_alert", "create_anomaly_alert",
                    "create_conversion_deviation_alert"}

FactoryFlag ==
    IF ret'.op = "create_drift_alert"
    THEN Get(ret'.drift_result, "drift_detected", FALSE)
    ELSE IF ret'.op = "create_anomaly_alert"
         THEN Get(ret'.anomaly_result, "is_anomaly", FALSE)
         ELSE Get(ret'.deviation_result, "deviation_detected", FALSE)

\* C36: create_drift_alert, create_anomaly_alert and
\* create_conversion_deviation_alert return no alert when the flag of their
\* detector result is false or missing and then leave the alert table and
\* the id counter as they were; the counter moves only by the alerts that
\* are stored.
C36_NegativeResultConsumesNoId ==
    [][FactoryCalled =>
          /\ ~FactoryFlag =>
                /\ ret'.alert_ids = <<>>
                /\ alerts' = alerts
                /\ alert_counter' = alert_counter
          /\ alert_counter' - alert_counter = Len(alerts') - Len(alerts)
          /\ alert_counter' - alert_counter = Len(ret'.alert_ids)
          /\ \A i \in DOMAIN ret'.alert_ids : HasKey(alerts', ret'.alert_ids[i])]_vars

\* create_anomaly_alert was given a result without the is_anomaly key after
\* an alert had been stored, and returned nothing
C36_Witness ==
    /\ ret # NoCall
    /\ ret.op = "create_anomaly_alert"
    /\ "is_anomaly" \notin DOMAIN ret.anomaly_result
    /\ ret.alert_ids = <<>>
    /\ alert_counter = 1
    /\ Len(alerts) = 1


-----------------------------------------------------------------------------
(* Properties of the conversion histories *)

\* what detect_conversion_drift answers on a detector for every SKU and
\* window, the t-test deciding as it does for the slices it is given
ConversionAnswers(d) ==
    [sku \in {"SKU-001", "SKU-002"}, window \in ConversionWindows |->
        {detect_conversion_drift(d, sku, window, detected) : detected \in BOOLEAN}]

\* C37: add_to_recent changes neither the conversion histories nor the
\* baseline, and once baseline_ready is true no call changes the conversion
\* histories, so detect_conversion_drift keeps its answer for every SKU.
C37_RecentRecordsLeaveConversionHistory ==
    [][ /\ (ecalls' = ecalls + 1 /\ eres'.op = "add_to_recent") =>
              /\ drift_detector'.sku_conversion_history
                    = drift_detector.sku_conversion_history
              /\ drift_detector'.baseline_data = drift_detector.baseline_data
              /\ drift_detector'.baseline_ready = drift_detector.baseline_ready
        /\ drift_detector.baseline_ready =>
              /\ drift_detector'.sku_conversion_history
                    = drift_detector.sku_conversion_history
              /\ ConversionAnswers(drift_detector') = ConversionAnswers(drift_detector) ]_vars

\* a record with a SKU and views went to the recent window of a detector
\* whose baseline is complete and whose history of that SKU is long enough
\* for detect_conversion_drift to compare
C37_Witness ==
    /\ eres # NoCall
    /\ eres.op = "add_to_recent"
    /\ Truthy(eres.record.sku)
    /\ eres.record.views > 0
    /\ drift_detector.baseline_ready
    /\ Len(ListOf(drift_detector.sku_conversion_history, eres.record.sku[1])) >= MinConversions
    /\ drift_detector.recent_data.price # <<>>


-----------------------------------------------------------------------------
(* Properties of the alert listing endpoint *)

\* C38: GET /alerts with a severity parameter that is none of low, medium,
\* high and critical is answered with status 400 and neither purges nor
\* otherwise changes the alert table.
C38_InvalidSeverityIs400 ==
    [][(/\ ret = NoCall
        /\ ret' # NoCall
        /\ ret'.op = "GET /alerts"
        /\ Truthy(ret'.severity)
        /\ lower(ret'.severity[1]) \notin Severities) =>
          /\ ret'.status = 400
          /\ alerts' = alerts
          /\ purged' = purged]_vars


=============================================================================
